---------------------------- MODULE Spec2Model ----------------------------
(***************************************************************************)
(* Model of probability_and_statistics/DiscreteDistributionClasses.py:     *)
(* the _DiscreteProbabilityDistribution query surface (pmf, cdf,           *)
(* inverse_cdf, mean, variance) over the five variants Bernoulli,          *)
(* Binomial, Geometric, Poisson and Uniform, evaluated in the decimal      *)
(* arithmetic the module configures (getcontext().prec = 10).              *)
(***************************************************************************)
EXTENDS Integers, Sequences, FiniteSets, TLC

(***************************************************************************)
(* Arbitrary-size naturals.  TLC's integers are 32 bits wide, a Decimal    *)
(* coefficient of 10 digits (and the exact 20-digit product of two) is     *)
(* not, so a natural is a sequence of limbs in radix Base, least           *)
(* significant limb first, with no leading zero limb; zero is << >>.       *)
(***************************************************************************)
Base == 10 ^ 4

Max(a, b) == IF a >= b THEN a ELSE b

Min(a, b) == IF a <= b THEN a ELSE b

\* limb k of a; 0 outside a
Limb(a, k) == IF k >= 1 /\ k <= Len(a) THEN a[k] ELSE 0

\* the position of the top nonzero limb, 0 when there is none
BTop(a) ==
  IF \A k \in 1..Len(a) : a[k] = 0 THEN 0
  ELSE CHOOSE k \in 1..Len(a) :
         a[k] # 0 /\ \A j \in (k + 1)..Len(a) : a[j] = 0

\* the limbs [k \in 1..n |-> ...] as a tuple
Limbs(a) == SubSeq(a, 1, Len(a))

BTrim(a) == SubSeq(a, 1, BTop(a))

\* drop the leading zero limbs
BNorm(a) == BTrim(Limbs(a))

\* an integer 0 <= n < 2^31 as a natural
BNat(n) == BNorm(<<n % Base, (n \div Base) % Base, n \div (Base * Base)>>)

\* the carry into limb k of a + b: some lower limb overflows and every limb
\* between is full
BCarry(a, b, k) ==
  \E i \in 1..(k - 1) :
    /\ Limb(a, i) + Limb(b, i) >= Base
    /\ \A m \in (i + 1)..(k - 1) : Limb(a, m) + Limb(b, m) = Base - 1

BAdd(a, b) ==
  IF a = << >> THEN b
  ELSE IF b = << >> THEN a
  ELSE BNorm([k \in 1..(Max(Len(a), Len(b)) + 1) |->
           (Limb(a, k) + Limb(b, k) + (IF BCarry(a, b, k) THEN 1 ELSE 0))
             % Base])

\* the borrow from limb k of a - b
BBorrow(a, b, k) ==
  \E i \in 1..(k - 1) :
    /\ Limb(a, i) < Limb(b, i)
    /\ \A m \in (i + 1)..(k - 1) : Limb(a, m) = Limb(b, m)

\* a - b for a >= b
BSub(a, b) ==
  IF b = << >> THEN a
  ELSE IF a = b THEN << >>
  ELSE BNorm([k \in 1..Len(a) |->
           (Limb(a, k) - Limb(b, k) - (IF BBorrow(a, b, k) THEN 1 ELSE 0)
              + Base) % Base])

BCmpLimb(a, b, k) == IF a[k] < b[k] THEN -1 ELSE 1

\* -1, 0, 1 as a < b, a = b, a > b: the top limb that differs decides
BCmp(a, b) ==
  IF Len(a) < Len(b) THEN -1
  ELSE IF Len(a) > Len(b) THEN 1
  ELSE IF \A k \in 1..Len(a) : a[k] = b[k] THEN 0
  ELSE BCmpLimb(a, b, CHOOSE k \in 1..Len(a) :
                        a[k] # b[k] /\ \A j \in (k + 1)..Len(a) : a[j] = b[j])

\* a * m for 0 <= m < Base: the low halves of the limb products plus their
\* high halves one limb up
BMulSmall(a, m) ==
  IF a = << >> \/ m = 0 THEN << >>
  ELSE BAdd(Limbs([k \in 1..Len(a) |-> (a[k] * m) % Base]),
            Limbs([k \in 1..(Len(a) + 1) |->
                     (Limb(a, k - 1) * m) \div Base]))

\* a * Base^n
BShift(a, n) ==
  IF a = << >> \/ n = 0 THEN a ELSE Limbs([k \in 1..n |-> 0]) \o a

RECURSIVE BMulFrom(_, _, _)
BMulFrom(a, b, j) ==
  IF j > Len(b) THEN << >>
  ELSE BAdd(BMulSmall(a, b[j]), BShift(BMulFrom(a, b, j + 1), 1))

BMul(a, b) == IF a = << >> \/ b = << >> THEN << >> ELSE BMulFrom(a, b, 1)

\* a^k by squaring
RECURSIVE BPow(_, _)
BSquare(a) == BMul(a, a)

BPow(a, k) ==
  IF k = 0 THEN <<1>>
  ELSE IF k % 2 = 0 THEN BSquare(BPow(a, k \div 2))
  ELSE BMul(BPow(a, k - 1), a)

\* a * 10^s for 0 <= s <= 3: the decimal digits move up inside the limbs
BShiftDigits(a, s) ==
  IF a = << >> \/ s = 0 THEN a
  ELSE BNorm([k \in 1..(Len(a) + 1) |->
           (Limb(a, k) % (Base \div 10 ^ s)) * 10 ^ s
             + (Limb(a, k - 1) \div (Base \div 10 ^ s))])

BMulPow10(a, k) ==
  IF a = << >> \/ k = 0 THEN a
  ELSE BShift(BShiftDigits(a, k % 4), k \div 4)

BPow10(k) == BMulPow10(<<1>>, k)

\* a % 10^k and a \div 10^k
BLowDigits(a, k) ==
  IF a = << >> \/ k = 0 THEN << >>
  ELSE BNorm([j \in 1..(k \div 4 + 1) |->
           IF j <= k \div 4 THEN Limb(a, j) ELSE Limb(a, j) % (10 ^ (k % 4))])

BHighDigits(a, k) ==
  IF a = << >> \/ k = 0 THEN a
  ELSE BNorm([j \in 1..Max(0, Len(a) - k \div 4) |->
           (Limb(a, j + k \div 4) \div 10 ^ (k % 4))
             + (Limb(a, j + k \div 4 + 1) % 10 ^ (k % 4))
                 * (Base \div 10 ^ (k % 4))])

\* the number of decimal digits of a limb, and of a natural (0 has none)
LimbDigits(v) == IF v >= 1000 THEN 4 ELSE IF v >= 100 THEN 3
                 ELSE IF v >= 10 THEN 2 ELSE 1

BDigits(a) ==
  IF a = << >> THEN 0 ELSE 4 * (Len(a) - 1) + LimbDigits(a[Len(a)])

\* the number of trailing zero digits of a limb, and of a natural a # 0
LimbZeros(v) == IF v % 1000 = 0 THEN 3 ELSE IF v % 100 = 0 THEN 2
                ELSE IF v % 10 = 0 THEN 1 ELSE 0

BLowLimb(a) ==
  CHOOSE k \in 1..Len(a) : a[k] # 0 /\ \A j \in 1..(k - 1) : a[j] = 0

BTrailingZeros(a) == 4 * (BLowLimb(a) - 1) + LimbZeros(a[BLowLimb(a)])

\* floor division by schoolbook long division, one decimal digit of the
\* quotient at a time: at <<i, q, r>>, i is the power of ten of the digit
\* being found, q the quotient so far, r the running remainder.
\* Returns <<quotient, remainder>>.
RECURSIVE BDivStep(_, _)
\* the largest digit g with t * g <= r
BDivDigit(t, r) == Cardinality({g \in 1..9 : BCmp(BMulSmall(t, g), r) <= 0})

BDivTake(i, q, r, t, g) ==
  <<i - 1, BAdd(BMulSmall(q, 10), BNat(g)), BSub(r, BMulSmall(t, g))>>

BDivAt(i, q, r, t) == BDivTake(i, q, r, t, BDivDigit(t, r))

BDivStep(d, at) ==
  IF at[1] < 0 THEN <<at[2], at[3]>>
  ELSE BDivStep(d, BDivAt(at[1], at[2], at[3], BMulPow10(d, at[1])))

\* floor division by a one-limb divisor v, one limb of the quotient at a
\* time from the top: at <<k, q, r>>, the limbs above k are divided, q are
\* the quotient limbs found, r the remainder carried down
RECURSIVE BDivSmallStep(_, _, _)
BDivSmallStep(n, v, at) ==
  IF at[1] = 0 THEN <<BNorm(at[2]), BNat(at[3])>>
  ELSE BDivSmallStep(n, v, <<at[1] - 1,
                             <<(at[3] * Base + n[at[1]]) \div v>> \o at[2],
                             (at[3] * Base + n[at[1]]) % v>>)

BDivMod(n, d) ==
  IF Len(d) = 1 THEN BDivSmallStep(n, d[1], <<Len(n), << >>, 0>>)
  ELSE BDivStep(d, <<Max(0, BDigits(n) - BDigits(d)), << >>, n>>)

BIsOdd(a) == a # << >> /\ Head(a) % 2 = 1


(***************************************************************************)
(* decimal.Decimal under getcontext().prec = 10 and the default rounding   *)
(* ROUND_HALF_EVEN.  A Decimal is [neg, c, e] with value (-1)^neg * c *    *)
(* 10^e, kept in the one form with no trailing zero in c (zero is c = << >>*)
(* e = 0): the arithmetic below depends on the value alone, so 1.0 and     *)
(* 1.000 are the same number here, as they are under Python's ==.          *)
(***************************************************************************)
prec == 10

DecStrip(neg, c, e, zeros) ==
  [neg |-> neg, c |-> BHighDigits(c, zeros), e |-> e + zeros]

DecCanon(neg, c, e) ==
  IF c = << >> THEN [neg |-> FALSE, c |-> << >>, e |-> 0]
  ELSE DecStrip(neg, c, e, BTrailingZeros(c))

\* ROUND_HALF_EVEN: q is the coefficient cut to prec digits, half compares
\* twice the digits cut off with the power of ten they are cut at
DecRoundHalf(neg, q, half, e) ==
  DecCanon(neg,
           IF half > 0 \/ (half = 0 /\ BIsOdd(q)) THEN BAdd(q, <<1>>) ELSE q,
           e)

DecRoundTo(neg, c, e, k) ==
  DecRoundHalf(neg, BHighDigits(c, k),
               BCmp(BAdd(BLowDigits(c, k), BLowDigits(c, k)), BPow10(k)),
               e + k)

\* Decimal._fix: round the exact value c * 10^e to prec significant digits
DecRound(neg, c, e) ==
  IF BDigits(c) <= prec THEN DecCanon(neg, c, e)
  ELSE DecRoundTo(neg, c, e, BDigits(c) - prec)

\* Decimal(int)
DecInt(n) == IF n < 0 THEN DecCanon(TRUE, BNat(-n), 0)
             ELSE DecCanon(FALSE, BNat(n), 0)

\* Decimal(str(p)) for p = num / 10^places, e.g. 0.25 is DecFrac(25, 2)
DecFrac(num, places) ==
  IF num < 0 THEN DecCanon(TRUE, BNat(-num), -places)
  ELSE DecCanon(FALSE, BNat(num), -places)

DecNeg(a) == IF a.c = << >> THEN a ELSE [a EXCEPT !.neg = ~a.neg]

\* the exact sum of two aligned coefficients: <<neg, c, e>>
DecAddAligned(aneg, ca, bneg, cb, e) ==
  IF aneg = bneg THEN <<aneg, BAdd(ca, cb), e>>
  ELSE IF BCmp(ca, cb) >= 0 THEN <<aneg, BSub(ca, cb), e>>
  ELSE <<bneg, BSub(cb, ca), e>>

\* the exact sum, before rounding
DecAddExact(a, b) ==
  DecAddAligned(a.neg, BMulPow10(a.c, a.e - Min(a.e, b.e)),
                b.neg, BMulPow10(b.c, b.e - Min(a.e, b.e)), Min(a.e, b.e))

DecRoundTriple(s) == DecRound(s[1], s[2], s[3])

DecAdd(a, b) ==
  IF a.c = << >> THEN DecRound(b.neg, b.c, b.e)
  ELSE IF b.c = << >> THEN DecRound(a.neg, a.c, a.e)
  ELSE DecRoundTriple(DecAddExact(a, b))

DecSub(a, b) == DecAdd(a, DecNeg(b))

DecMul(a, b) ==
  IF a.c = << >> \/ b.c = << >> THEN DecCanon(FALSE, << >>, 0)
  ELSE DecRound(a.neg # b.neg, BMul(a.c, b.c), a.e + b.e)

\* Decimal.__truediv__ (b nonzero): the quotient to prec + 1 digits with a
\* sticky last digit when the division is inexact, then rounded
DecDivSticky(qr) ==
  IF qr[2] # << >> /\ Head(qr[1] \o <<0>>) % 5 = 0 THEN BAdd(qr[1], <<1>>)
  ELSE qr[1]

DecDivShifted(neg, a, b, shift) ==
  DecRound(neg,
           DecDivSticky(BDivMod(BMulPow10(a.c, Max(shift, 0)),
                                BMulPow10(b.c, Max(-shift, 0)))),
           a.e - b.e - shift)

DecDiv(a, b) ==
  IF a.c = << >> THEN a
  ELSE DecDivShifted(a.neg # b.neg, a, b,
                     BDigits(b.c) - BDigits(a.c) + prec + 1)

\* Decimal ** int for an exponent k >= 0: the exact power, rounded
DecPow(a, k) ==
  IF k = 0 THEN DecInt(1)
  ELSE IF a.c = << >> THEN a
  ELSE DecRound(a.neg /\ k % 2 = 1, BPow(a.c, k), a.e * k)

\* -1, 0, 1 as a < b, a = b, a > b (exact: comparisons do not round)
DecSign(s) == IF s[2] = << >> THEN 0 ELSE IF s[1] THEN -1 ELSE 1

DecCmp(a, b) == IF a = b THEN 0 ELSE DecSign(DecAddExact(a, DecNeg(b)))

DecLt(a, b) == DecCmp(a, b) < 0

DecLe(a, b) == DecCmp(a, b) <= 0

DecAbs(a) == [a EXCEPT !.neg = FALSE]

(***************************************************************************)
(* Python values.  A support bound or search cursor is a number with its   *)
(* Python type: an int, an integral Decimal (Uniform keeps its bounds as   *)
(* Decimal) or the float np.inf / -np.inf (inf = 1 / -1).                  *)
(***************************************************************************)
PyInt(n) == [type |-> "int", inf |-> 0, int |-> n]

PyDecimal(n) == [type |-> "Decimal", inf |-> 0, int |-> n]

PyInf(sign) == [type |-> "float", inf |-> sign, int |-> 0]

\* a <= b on such numbers
PyLe(a, b) ==
  IF a.inf # 0 \/ b.inf # 0 THEN a.inf < b.inf \/ (a.inf = b.inf /\ a.inf # 0)
  ELSE a.int <= b.int

\* the argument of pmf / cdf: a list of ints, or one number
ListArg(y) == [kind |-> "list", list |-> y, number |-> PyInt(0)]

NumberArg(v) == [kind |-> "number", list |-> << >>, number |-> v]

\* what a call produces: "ok" with its rows, or the exception raised.
\* "RangeError" is the TypeError("... is out of range ...") the module raises.
Returned(rows) == [status |-> "ok", rows |-> rows]

Raised(exception) == [status |-> exception, rows |-> << >>]

(***************************************************************************)
(* The instances: the base constructor and the five variants.  A formula   *)
(* attribute holds the name of the expression string the variant stores    *)
(* ("None" when it stores none); eval_* below evaluate it.                 *)
(***************************************************************************)
DiscreteProbabilityDistribution(parameters) ==
  [parameters |-> parameters, pmf_formula |-> "None", cdf_formula |-> "None",
   mean_formula |-> "None", variance_formula |-> "None",
   X_range |-> <<PyInf(-1), PyInf(1)>>, name |-> "DPD"]

Bernoulli(p) ==
  [DiscreteProbabilityDistribution([p |-> p]) EXCEPT
     !.pmf_formula = "Bernoulli", !.mean_formula = "Bernoulli",
     !.variance_formula = "Bernoulli",
     !.X_range = <<PyInt(0), PyInt(1)>>, !.name = "Bernoulli"]

Binomial(n, p) ==
  [DiscreteProbabilityDistribution([n |-> n, p |-> p]) EXCEPT
     !.pmf_formula = "Binomial", !.mean_formula = "Binomial",
     !.variance_formula = "Binomial",
     !.X_range = <<PyInt(0), PyInt(n)>>, !.name = "B"]

Geometric(p) ==
  [DiscreteProbabilityDistribution([p |-> p]) EXCEPT
     !.pmf_formula = "Geometric", !.cdf_formula = "Geometric",
     !.mean_formula = "Geometric", !.variance_formula = "Geometric",
     !.X_range = <<PyInt(1), PyInf(1)>>, !.name = "G"]

Poisson(l) ==
  [DiscreteProbabilityDistribution([l |-> l]) EXCEPT
     !.pmf_formula = "Poisson", !.mean_formula = "Poisson",
     !.variance_formula = "Poisson",
     !.X_range = <<PyInt(0), PyInf(1)>>, !.name = "Poisson"]

Uniform(m, n) ==
  [DiscreteProbabilityDistribution([m |-> DecInt(m), n |-> DecInt(n)]) EXCEPT
     !.pmf_formula = "Uniform", !.cdf_formula = "Uniform",
     !.mean_formula = "Uniform", !.variance_formula = "Uniform",
     !.X_range = <<PyDecimal(m), PyDecimal(n)>>, !.name = "Uniform"]

One == DecInt(1)

RECURSIVE comb(_, _)
comb(n, k) ==
  IF k < 0 \/ k > n THEN 0
  ELSE IF k = 0 \/ k = n THEN 1
  ELSE comb(n - 1, k - 1) + comb(n - 1, k)

RECURSIVE factorial(_)
factorial(x) == IF x = 0 THEN <<1>> ELSE BMul(BNat(x), factorial(x - 1))

\* np.exp(-l) on a Decimal is Decimal.exp(), correctly rounded to prec
\* digits; tabulated for the lambdas the model constructs
exp_neg(l) ==
  CASE l = DecInt(1) -> DecCanon(FALSE, <<4412, 7879, 36>>, -10)
    [] l = DecInt(2) -> DecCanon(FALSE, <<2832, 5335, 13>>, -10)
    [] l = DecInt(4) -> DecCanon(FALSE, <<3889, 3156, 18>>, -11)

\* a pmf whose Geometric mass is (1-p)^x * p, the exponent off by one
eval_pmf_shifted(self, x) ==
  LET P == self.parameters IN
  CASE self.pmf_formula = "Bernoulli" ->
         DecMul(DecPow(P.p, x), DecPow(DecSub(One, P.p), 1 - x))
    [] self.pmf_formula = "Binomial" ->
         DecMul(DecMul(DecInt(comb(P.n, x)), DecPow(P.p, x)),
                DecPow(DecSub(One, P.p), P.n - x))
    [] self.pmf_formula = "Geometric" ->
         DecMul(DecPow(DecSub(One, P.p), x), P.p)
    [] self.pmf_formula = "Poisson" ->
         DecMul(DecDiv(DecPow(P.l, x), DecCanon(FALSE, factorial(x), 0)),
                exp_neg(P.l))
    [] self.pmf_formula = "Uniform" ->
         DecDiv(One, DecAdd(DecSub(P.n, P.m), One))

\* eval(self.pmf_formula) at an int x
eval_pmf(self, x) ==
  LET P == self.parameters IN
  CASE self.pmf_formula = "Bernoulli" ->
         DecMul(DecPow(P.p, x), DecPow(DecSub(One, P.p), 1 - x))
    [] self.pmf_formula = "Binomial" ->
         DecMul(DecMul(DecInt(comb(P.n, x)), DecPow(P.p, x)),
                DecPow(DecSub(One, P.p), P.n - x))
    [] self.pmf_formula = "Geometric" ->
         DecMul(DecPow(DecSub(One, P.p), x - 1), P.p)
    [] self.pmf_formula = "Poisson" ->
         DecMul(DecDiv(DecPow(P.l, x), DecCanon(FALSE, factorial(x), 0)),
                exp_neg(P.l))
    [] self.pmf_formula = "Uniform" ->
         DecDiv(One, DecAdd(DecSub(P.n, P.m), One))

\* a closed-form cdf that gives Geometric the survival function (1-p)^x,
\* the leading "1 -" of the formula lost
eval_cdf_survival(self, x) ==
  LET P == self.parameters IN
  CASE self.cdf_formula = "Geometric" -> DecPow(DecSub(One, P.p), x)
    [] self.cdf_formula = "Uniform" ->
         DecDiv(DecAdd(DecSub(DecInt(x), P.m), One),
                DecAdd(DecSub(P.n, P.m), One))

\* eval(self.cdf_formula) at an int x
eval_cdf(self, x) ==
  LET P == self.parameters IN
  CASE self.cdf_formula = "Geometric" ->
         DecSub(One, DecPow(DecSub(One, P.p), x))
    [] self.cdf_formula = "Uniform" ->
         DecDiv(DecAdd(DecSub(DecInt(x), P.m), One),
                DecAdd(DecSub(P.n, P.m), One))

\* _check_value_is_in_range: TRUE when x passes (no exception)
check_value_is_in_range(self, x) ==
  PyLe(self.X_range[1], PyInt(x)) /\ PyLe(PyInt(x), self.X_range[2])

\* "if type(x) == int: y = [x] else: y = list(x)"
as_list(x) ==
  IF x.kind = "list" THEN Returned(x.list)
  ELSE IF x.number.type = "int" THEN Returned(<<x.number.int>>)
  ELSE Raised("TypeError")

\* one pass of the body of pmf's for loop: what it raises at value x, if
\* anything (lines 75-79)
pmf_step(self, x) ==
  IF ~check_value_is_in_range(self, x) THEN "RangeError"
  ELSE IF self.pmf_formula = "None" THEN "TypeError"
  ELSE "ok"

\* rows that hold each requested value once: a value requested again gets
\* no second row
pmf_rows_once(self, y) ==
  LET first(k) == CHOOSE n \in 1..Len(y) :
                    /\ \A j \in 1..(n - 1) : y[j] # y[n]
                    /\ Cardinality({y[j] : j \in 1..n}) = k
  IN  [k \in 1..Cardinality({y[j] : j \in 1..Len(y)}) |->
         <<y[first(k)], eval_pmf(self, y[first(k)])>>]

\* the rows the loop appends, one per value
pmf_rows(self, y) == [k \in 1..Len(y) |-> <<y[k], eval_pmf(self, y[k])>>]

\* what the loop raises: the outcome of the first pass that is not "ok"
first_raised(steps) ==
  steps[CHOOSE k \in 1..Len(steps) :
          steps[k] # "ok" /\ \A j \in 1..(k - 1) : steps[j] = "ok"]

\* a pmf loop that passes over a value out of range instead of raising
pmf_loop_skipping(self, y) ==
  Returned(pmf_rows(self,
                    SelectSeq(y, LAMBDA v : check_value_is_in_range(self, v))))

\* the for loop of pmf: the first value at which the body raises ends the
\* call, otherwise every value has its row
pmf_loop(self, y) ==
  IF \A k \in 1..Len(y) : pmf_step(self, y[k]) = "ok"
    THEN Returned(pmf_rows(self, y))
  ELSE Raised(first_raised([k \in 1..Len(y) |-> pmf_step(self, y[k])]))

pmf_of(self, y) ==
  IF y.status # "ok" THEN y ELSE pmf_loop(self, y.rows)

pmf(self, x) == pmf_of(self, as_list(x))

RECURSIVE max(_)
max(y) == IF Len(y) = 1 THEN y[1] ELSE Max(Head(y), max(Tail(y)))

\* list(range(start, end))
range(start, end) == [k \in 1..Max(0, end - start) |-> start + k - 1]

\* a cumulative sum that restarts at every row (the p(x) column unsummed)
cumsum_restarting(rows) == [j \in 1..Len(rows) |-> <<rows[j][1], rows[j][2]>>]

\* cdf['F(x)'] = cdf['p(x)'].cumsum(): each partial sum is a rounded Decimal;
\* out holds the rows summed so far
RECURSIVE cumsum_from(_, _)
cumsum_from(rows, out) ==
  IF Len(out) >= Len(rows) THEN out
  ELSE cumsum_from(rows,
         Append(out, <<rows[Len(out) + 1][1],
                       IF out = << >> THEN rows[1][2]
                       ELSE DecAdd(out[Len(out)][2],
                                   rows[Len(out) + 1][2])>>))

cumsum(rows) == cumsum_from(rows, << >>)

InList(v, y) == \E k \in 1..Len(y) : y[k] = v

\* cdf[cdf['x'].isin(y)]: the rows of the table whose x was requested
isin_rows(table, y) == SelectSeq(table, LAMBDA row : InList(row[1], y))

\* one pass of the body of cdf's for loop on the closed-form branch
cdf_step(self, x) ==
  IF ~check_value_is_in_range(self, x) THEN "RangeError" ELSE "ok"

cdf_rows(self, y) == [k \in 1..Len(y) |-> <<y[k], eval_cdf(self, y[k])>>]

\* the for loop of cdf on the closed-form branch
cdf_loop(self, y) ==
  IF \A k \in 1..Len(y) : cdf_step(self, y[k]) = "ok"
    THEN Returned(cdf_rows(self, y))
  ELSE Raised(first_raised([k \in 1..Len(y) |-> cdf_step(self, y[k])]))

\* lines 109-110: the cumulative sums of the pmf table, then the rows asked for
cdf_of_table(table, y) ==
  IF table.status # "ok" THEN table
  ELSE Returned(isin_rows(cumsum(table.rows), y))

\* a summation branch that starts the sum at 0 when the support has no
\* lower bound, instead of failing
cdf_of_from_zero(self, y) ==
  IF y.status # "ok" THEN y
  ELSE IF self.cdf_formula = "None" THEN
    IF y.rows = << >> THEN Raised("ValueError")
    ELSE IF self.X_range[1].type = "Decimal" THEN Raised("TypeError")
    ELSE cdf_of_table(pmf(self, ListArg(range(self.X_range[1].int,
                                              max(y.rows) + 1))), y.rows)
  ELSE cdf_loop(self, y.rows)

\* lines 104-118, y being the list made of the argument
cdf_of(self, y) ==
  IF y.status # "ok" THEN y
  ELSE IF self.cdf_formula = "None" THEN
    IF y.rows = << >> THEN Raised("ValueError")
    ELSE IF self.X_range[1] = PyInf(-1) THEN Raised("UnboundLocalError")
    ELSE IF self.X_range[1].type # "int" THEN Raised("TypeError")
    ELSE cdf_of_table(pmf(self, ListArg(range(self.X_range[1].int,
                                              max(y.rows) + 1))), y.rows)
  ELSE cdf_loop(self, y.rows)

cdf(self, x) == cdf_of(self, as_list(x))

\* eval(self.mean_formula)
mean(self) ==
  LET P == self.parameters IN
  CASE self.mean_formula = "None" -> Raised("TypeError")
    [] self.mean_formula = "Bernoulli" -> Raised("NameError")
    [] self.mean_formula = "Binomial" -> Returned(<<DecMul(DecInt(P.n), P.p)>>)
    [] self.mean_formula = "Geometric" -> Returned(<<DecDiv(One, P.p)>>)
    [] self.mean_formula = "Poisson" -> Returned(<<DecMul(One, P.l)>>)
    [] self.mean_formula = "Uniform" ->
         Returned(<<DecDiv(DecAdd(P.n, P.m), DecInt(2))>>)

\* a variance that evaluates the mean formula
variance_as_mean(self) == mean(self)

\* eval(self.variance_formula)
variance(self) ==
  LET P == self.parameters IN
  CASE self.variance_formula = "None" -> Raised("TypeError")
    [] self.variance_formula = "Bernoulli" ->
         Returned(<<DecMul(P.p, DecSub(One, P.p))>>)
    [] self.variance_formula = "Binomial" ->
         Returned(<<DecMul(DecMul(DecInt(P.n), P.p), DecSub(One, P.p))>>)
    [] self.variance_formula = "Geometric" ->
         Returned(<<DecDiv(DecSub(One, P.p), DecPow(P.p, 2))>>)
    [] self.variance_formula = "Poisson" -> Returned(<<DecMul(One, P.l)>>)
    [] self.variance_formula = "Uniform" ->
         Returned(<<DecMul(DecMul(DecDiv(One, DecInt(12)),
                                  DecSub(P.n, P.m)),
                           DecAdd(DecSub(P.n, P.m), DecInt(2)))>>)

\* y.sort() on a list of Decimals (ascending, stable): insertion sort
RECURSIVE insert(_, _)
insert(a, sorted) ==
  IF sorted = << >> THEN <<a>>
  ELSE IF DecLt(a, Head(sorted)) THEN <<a>> \o sorted
  ELSE <<Head(sorted)>> \o insert(a, Tail(sorted))

\* a copy of the quantiles left in the order given
sort_skipped(y) == y

RECURSIVE sort(_)
sort(y) == IF y = << >> THEN << >>
           ELSE insert(y[Len(y)], sort(SubSeq(y, 1, Len(y) - 1)))

(***************************************************************************)
(* Python floats: IEEE 754 binary64, round half to even.  A float is       *)
(* [neg, m, e], its value m * 2^e with 2^52 <= m < 2^53; zero has m = 0.   *)
(* Every operation is the exact result rounded once.                       *)
(***************************************************************************)
\* the bits of the significand
mant_dig == 53

\* 2^0, 2^1, ..., 2^127 in limbs
BPow2Table ==
  << <<1>>, <<2>>, <<4>>, <<8>>, <<16>>, <<32>>, <<64>>, <<128>>, <<256>>,
    <<512>>, <<1024>>, <<2048>>, <<4096>>, <<8192>>, <<6384, 1>>,
    <<2768, 3>>, <<5536, 6>>, <<1072, 13>>, <<2144, 26>>, <<4288, 52>>,
    <<8576, 104>>, <<7152, 209>>, <<4304, 419>>, <<8608, 838>>,
    <<7216, 1677>>, <<4432, 3355>>, <<8864, 6710>>, <<7728, 3421, 1>>,
    <<5456, 6843, 2>>, <<912, 3687, 5>>, <<1824, 7374, 10>>,
    <<3648, 4748, 21>>, <<7296, 9496, 42>>, <<4592, 8993, 85>>,
    <<9184, 7986, 171>>, <<8368, 5973, 343>>, <<6736, 1947, 687>>,
    <<3472, 3895, 1374>>, <<6944, 7790, 2748>>, <<3888, 5581, 5497>>,
    <<7776, 1162, 995, 1>>, <<5552, 2325, 1990, 2>>,
    <<1104, 4651, 3980, 4>>, <<2208, 9302, 7960, 8>>,
    <<4416, 8604, 5921, 17>>, <<8832, 7208, 1843, 35>>,
    <<7664, 4417, 3687, 70>>, <<5328, 8835, 7374, 140>>,
    <<656, 7671, 4749, 281>>, <<1312, 5342, 9499, 562>>,
    <<2624, 684, 8999, 1125>>, <<5248, 1368, 7998, 2251>>,
    <<496, 2737, 5996, 4503>>, <<992, 5474, 1992, 9007>>,
    <<1984, 948, 3985, 8014, 1>>, <<3968, 1896, 7970, 6028, 3>>,
    <<7936, 3792, 5940, 2057, 7>>, <<5872, 7585, 1880, 4115, 14>>,
    <<1744, 5171, 3761, 8230, 28>>, <<3488, 342, 7523, 6460, 57>>,
    <<6976, 684, 5046, 2921, 115>>, <<3952, 1369, 92, 5843, 230>>,
    <<7904, 2738, 184, 1686, 461>>, <<5808, 5477, 368, 3372, 922>>,
    <<1616, 955, 737, 6744, 1844>>, <<3232, 1910, 1474, 3488, 3689>>,
    <<6464, 3820, 2948, 6976, 7378>>, <<2928, 7641, 5896, 3952, 4757, 1>>,
    <<5856, 5282, 1793, 7905, 9514, 2>>, <<1712, 565, 3587, 5810, 9029, 5>>,
    <<3424, 1130, 7174, 1620, 8059, 11>>,
    <<6848, 2260, 4348, 3241, 6118, 23>>,
    <<3696, 4521, 8696, 6482, 2236, 47>>,
    <<7392, 9042, 7392, 2965, 4473, 94>>,
    <<4784, 8085, 4785, 5931, 8946, 188>>,
    <<9568, 6170, 9571, 1862, 7893, 377>>,
    <<9136, 2341, 9143, 3725, 5786, 755>>,
    <<8272, 4683, 8286, 7451, 1572, 1511>>,
    <<6544, 9367, 6572, 4903, 3145, 3022>>,
    <<3088, 8735, 3145, 9807, 6290, 6044>>,
    <<6176, 7470, 6291, 9614, 2581, 2089, 1>>,
    <<2352, 4941, 2583, 9229, 5163, 4178, 2>>,
    <<4704, 9882, 5166, 8458, 327, 8357, 4>>,
    <<9408, 9764, 333, 6917, 655, 6714, 9>>,
    <<8816, 9529, 667, 3834, 1311, 3428, 19>>,
    <<7632, 9059, 1335, 7668, 2622, 6856, 38>>,
    <<5264, 8119, 2671, 5336, 5245, 3712, 77>>,
    <<528, 6239, 5343, 672, 491, 7425, 154>>,
    <<1056, 2478, 687, 1345, 982, 4850, 309>>,
    <<2112, 4956, 1374, 2690, 1964, 9700, 618>>,
    <<4224, 9912, 2748, 5380, 3928, 9400, 1237>>,
    <<8448, 9824, 5497, 760, 7857, 8800, 2475>>,
    <<6896, 9649, 995, 1521, 5714, 7601, 4951>>,
    <<3792, 9299, 1991, 3042, 1428, 5203, 9903>>,
    <<7584, 8598, 3983, 6084, 2856, 406, 9807, 1>>,
    <<5168, 7197, 7967, 2168, 5713, 812, 9614, 3>>,
    <<336, 4395, 5935, 4337, 1426, 1625, 9228, 7>>,
    <<672, 8790, 1870, 8675, 2852, 3250, 8456, 15>>,
    <<1344, 7580, 3741, 7350, 5705, 6500, 6912, 31>>,
    <<2688, 5160, 7483, 4700, 1411, 3001, 3825, 63>>,
    <<5376, 320, 4967, 9401, 2822, 6002, 7650, 126>>,
    <<752, 641, 9934, 8802, 5645, 2004, 5301, 253>>,
    <<1504, 1282, 9868, 7605, 1291, 4009, 602, 507>>,
    <<3008, 2564, 9736, 5211, 2583, 8018, 1204, 1014>>,
    <<6016, 5128, 9472, 423, 5167, 6036, 2409, 2028>>,
    <<2032, 257, 8945, 847, 334, 2073, 4819, 4056>>,
    <<4064, 514, 7890, 1695, 668, 4146, 9638, 8112>>,
    <<8128, 1028, 5780, 3391, 1336, 8292, 9276, 6225, 1>>,
    <<6256, 2057, 1560, 6783, 2672, 6584, 8553, 2451, 3>>,
    <<2512, 4115, 3120, 3566, 5345, 3168, 7107, 4903, 6>>,
    <<5024, 8230, 6240, 7132, 690, 6337, 4214, 9807, 12>>,
    <<48, 6461, 2481, 4265, 1381, 2674, 8429, 9614, 25>>,
    <<96, 2922, 4963, 8530, 2762, 5348, 6858, 9229, 51>>,
    <<192, 5844, 9926, 7060, 5525, 696, 3717, 8459, 103>>,
    <<384, 1688, 9853, 4121, 1051, 1393, 7434, 6918, 207>>,
    <<768, 3376, 9706, 8243, 2102, 2786, 4868, 3837, 415>>,
    <<1536, 6752, 9412, 6487, 4205, 5572, 9736, 7674, 830>>,
    <<3072, 3504, 8825, 2975, 8411, 1144, 9473, 5349, 1661>>,
    <<6144, 7008, 7650, 5951, 6822, 2289, 8946, 699, 3323>>,
    <<2288, 4017, 5301, 1903, 3645, 4579, 7892, 1399, 6646>>,
    <<4576, 8034, 602, 3807, 7290, 9158, 5784, 2799, 3292, 1>>,
    <<9152, 6068, 1205, 7614, 4580, 8317, 1569, 5599, 6584, 2>>,
    <<8304, 2137, 2411, 5228, 9161, 6634, 3139, 1198, 3169, 5>>,
    <<6608, 4275, 4822, 456, 8323, 3269, 6279, 2396, 6338, 10>>,
    <<3216, 8551, 9644, 912, 6646, 6539, 2558, 4793, 2676, 21>>,
    <<6432, 7102, 9289, 1825, 3292, 3079, 5117, 9586, 5352, 42>>,
    <<2864, 4205, 8579, 3651, 6584, 6158, 234, 9173, 705, 85>>,
    <<5728, 8410, 7158, 7303, 3168, 2317, 469, 8346, 1411, 170>> >>

BPow2(k) == IF k < Len(BPow2Table) THEN BPow2Table[k + 1] ELSE BPow(<<2>>, k)

\* the number of binary digits of a natural a # 0: between the bounds its
\* decimal digits give
BBits(a) ==
  CHOOSE b \in (((BDigits(a) - 1) * 3321) \div 1000 + 1)
                ..((BDigits(a) * 3322) \div 1000 + 1) :
    BCmp(a, BPow2(b)) < 0 /\ BCmp(a, BPow2(b - 1)) >= 0

FZero == [neg |-> FALSE, m |-> << >>, e |-> 0]

\* m * 2^e with m of mant_dig bits, or of mant_dig + 1 bits after a carry
FNormal(neg, m, e) ==
  IF BCmp(m, BPow2(mant_dig)) >= 0
    THEN [neg |-> neg, m |-> BDivMod(m, <<2>>)[1], e |-> e + 1]
  ELSE [neg |-> neg, m |-> m, e |-> e]

\* qr = <<q, rest>>: the top mant_dig bits of a significand and the bits
\* dropped below them, of which there are d; sticky says that more nonzero
\* bits follow
FRoundUp(qr, d, sticky) ==
  \/ BCmp(qr[2], BPow2(d - 1)) > 0
  \/ /\ BCmp(qr[2], BPow2(d - 1)) = 0
     /\ (sticky \/ BIsOdd(qr[1]))

FRoundDropped(neg, qr, d, sticky, e) ==
  IF FRoundUp(qr, d, sticky) THEN FNormal(neg, BAdd(qr[1], <<1>>), e + d)
  ELSE FNormal(neg, qr[1], e + d)

\* q * 2^e rounded to mant_dig bits, q having d bits more than mant_dig, or
\* (d <= 0, nothing dropped) fewer
FRoundBits(neg, q, d, sticky, e) ==
  IF d <= 0 THEN [neg |-> neg, m |-> BMul(q, BPow2(0 - d)), e |-> e + d]
  ELSE FRoundDropped(neg, BDivMod(q, BPow2(d)), d, sticky, e)

\* qr = <<quotient, remainder>> of num * 2^sh by den
FRoundQuotient(neg, qr, e) ==
  FRoundBits(neg, qr[1], BBits(qr[1]) - mant_dig, qr[2] # << >>, e)

FRoundShifted(neg, num, den, sh, e) ==
  FRoundQuotient(neg, BDivMod(BMul(num, BPow2(sh)), den), e - sh)

\* a shift that leaves the quotient of num * 2^sh by den more than mant_dig
\* bits: gap bounds the decimal digits by which den is longer than num
FShiftFor(gap) ==
  Max(0, mant_dig + 3 + (IF gap > 0 THEN 4 * gap ELSE 3 * gap))

\* the float nearest to (num / den) * 2^e (naturals, den # 0), with the
\* sign neg
FRoundScaled(neg, num, den, e) ==
  IF num = << >> THEN [neg |-> neg, m |-> << >>, e |-> 0]
  ELSE FRoundShifted(neg, num, den,
                     FShiftFor(BDigits(den) - BDigits(num) + 1), e)

\* the float nearest to num / den
FRound(neg, num, den) == FRoundScaled(neg, num, den, 0)

\* float(n) for an int n
FInt(n) == IF n < 0 THEN FRound(TRUE, BNat(0 - n), <<1>>)
           ELSE FRound(FALSE, BNat(n), <<1>>)

FNeg(a) == [a EXCEPT !.neg = ~a.neg]

FAbs(a) == [a EXCEPT !.neg = FALSE]

\* the natural M * 2^e as a float
FRoundNat(neg, M, e) ==
  IF M = << >> THEN FZero
  ELSE FRoundBits(neg, M, BBits(M) - mant_dig, FALSE, e)

\* a + b from the significands A and B aligned at the exponent e
FAddAligned(a, b, A, B, e) ==
  IF a.neg = b.neg THEN FRoundNat(a.neg, BAdd(A, B), e)
  ELSE IF BCmp(A, B) >= 0 THEN FRoundNat(a.neg, BSub(A, B), e)
  ELSE FRoundNat(b.neg, BSub(B, A), e)

FAdd(a, b) ==
  IF a.m = << >> THEN (IF b.m = << >> /\ ~a.neg THEN a ELSE b)
  ELSE IF b.m = << >> THEN a
  ELSE FAddAligned(a, b, BMul(a.m, BPow2(a.e - Min(a.e, b.e))),
                   BMul(b.m, BPow2(b.e - Min(a.e, b.e))), Min(a.e, b.e))

FSub(a, b) == FAdd(a, FNeg(b))

\* a / n for an int n > 0
FDivInt(a, n) == FRoundScaled(a.neg, a.m, BNat(n), a.e)

\* -1, 0, 1 as |a| < |b|, |a| = |b|, |a| > |b|, neither of them zero
FCmpAbs(a, b) ==
  IF a.e # b.e THEN (IF a.e < b.e THEN -1 ELSE 1) ELSE BCmp(a.m, b.m)

\* -1, 0, 1 as a < b, a = b, a > b; the two zeros are equal
FCmp(a, b) ==
  IF a.m = << >> /\ b.m = << >> THEN 0
  ELSE IF a.m = << >> THEN (IF b.neg THEN 1 ELSE -1)
  ELSE IF b.m = << >> THEN (IF a.neg THEN -1 ELSE 1)
  ELSE IF a.neg # b.neg THEN (IF a.neg THEN -1 ELSE 1)
  ELSE IF a.neg THEN FCmpAbs(b, a)
  ELSE FCmpAbs(a, b)

(***************************************************************************)
(* The state machine: one instance, queried by a caller.  A pmf, cdf,      *)
(* mean or variance call is one step; inverse_cdf runs its for loop and    *)
(* the while loop of _inverse_cdf_helper one iteration per step.           *)
(***************************************************************************)
VARIABLES
  self,       \* the instance under query
  op,         \* the method called last ("none" before any call)
  arg,        \* its argument
  status,     \* "none", "running", "ok" or the exception raised
  result,     \* the rows (or value) returned; << >> when nothing is returned
  pc,         \* "ready", "for", "while" (inside inverse_cdf), "done"
  y,          \* inverse_cdf: the sorted quantiles
  i,          \* inverse_cdf: position of alpha in y
  x_start,    \* inverse_cdf: where the next search starts
  x,          \* _inverse_cdf_helper: the cursor
  candidate,  \* _inverse_cdf_helper: the accumulated probability
  qa,         \* inverse_cdf: results['qa']
  available,  \* latest_day: the days (counted back from now) whose data load
  date,       \* latest_day: the day requested, in days before now
  retry,      \* latest_day: the loop flag
  count,      \* latest_day: the failed attempts so far
  requested,  \* latest_day: the days whose url was opened, in order
  returned,   \* latest_day: the day whose data is returned (NoDay: None)
  latest_pc,  \* latest_day: "idle", "while" or "done"
  n_days,     \* range_of_days: the number of days requested
  failed,     \* range_of_days: the days (1..n_days, oldest first) whose
              \* download raises
  day,        \* range_of_days: the position of date in daterange
  all_data,   \* range_of_days: the days whose data was appended
  assembled,  \* range_of_days: the days of the data returned
  range_pc,   \* range_of_days: "idle", "for", "done" or the exception
  batch1,     \* combination_test: the first batch of observations
  batch2,     \* combination_test: the second batch
  one_sided,  \* combination_test: "None", "+" or "-"
  t_obs,      \* combination_test: the statistic of the batches as given
  splits,     \* combination_test: <<batch1_inds, batch2_inds>> of each pass
              \* of the loop over permut, in order
  t_distribution,  \* combination_test: the statistic of each split
  counter,    \* combination_test: the splits counted
  p_value,    \* combination_test: the p returned
  test_pc,    \* combination_test: "idle", "done" or the exception
  lon,        \* convert_dms_string_to_dd_float: the longitude string
  lat,        \* convert_dms_string_to_dd_float: the latitude string
  dd,         \* convert_dms_string_to_dd_float: [dd_lon, dd_lat] returned
  convert_pc, \* convert_dms_string_to_dd_float: "idle", "done" or the
              \* exception
  text,       \* find_integer_or_decimal_in_text: the text searched
  found,      \* find_integer_or_decimal_in_text: the list returned
  find_pc     \* find_integer_or_decimal_in_text: "idle" or "done"

vars == <<self, op, arg, status, result, pc, y, i, x_start, x, candidate, qa,
          available, date, retry, count, requested, returned, latest_pc,
          n_days, failed, day, all_data, assembled, range_pc,
          batch1, batch2, one_sided, t_obs, splits, t_distribution, counter,
          p_value, test_pc, lon, lat, dd, convert_pc, text, found, find_pc>>

locals == <<y, i, x_start, x, candidate, qa>>

\* the state of latest_day_from_nasa_oceandata_opendap
download == <<available, date, retry, count, requested, returned, latest_pc>>

\* the state of range_of_days_from_nasa_oceandata_opendap
range_of_days == <<n_days, failed, day, all_data, assembled, range_pc>>

\* the state of combination_test
randomisation == <<batch1, batch2, one_sided, t_obs, splits, t_distribution,
                   counter, p_value, test_pc>>

\* the state of convert_dms_string_to_dd_float
coordinates == <<lon, lat, dd, convert_pc>>

\* the state of find_integer_or_decimal_in_text
numbers == <<text, found, find_pc>>

\* the state of the programs other than the distribution queries and
\* latest_day
others == <<range_of_days, randomisation, coordinates, numbers>>

\* the state each of these programs leaves alone
beside_range == <<randomisation, coordinates, numbers>>

beside_test == <<range_of_days, coordinates, numbers>>

beside_convert == <<range_of_days, randomisation, numbers>>

beside_find == <<range_of_days, randomisation, coordinates>>

\* bounds of the inputs the caller draws
MaxLen == 2

MaxSpan == 3

\* how far the cursor of a search is followed
MaxCursor == 40

\* the instances constructed (a tuple: the variants' parameters differ in type)
Instances ==
  << Bernoulli(DecFrac(3, 1)), Binomial(10, DecFrac(25, 2)),
     Geometric(DecFrac(5, 1)), Poisson(DecInt(4)),
     Uniform(1, 6), Uniform(1, 39), Geometric(DecFrac(69, 2)) >>

\* requested values: around the lower bound of the support and, when the
\* support is finite, around its upper bound
XValues(d) ==
  LET lo == d.X_range[1].int
      hi == d.X_range[2]
  IN  ((lo - 1)..(lo + MaxSpan))
        \cup (IF hi.inf = 0 THEN {hi.int, hi.int + 1} ELSE {})

SeqsUpTo(S, n) == UNION { [1..k -> S] : k \in 1..n }

\* requested quantiles; the last one is 0.9999999999
Quantiles ==
  { DecInt(0), DecFrac(25, 2), DecFrac(5, 1), DecFrac(9, 1), DecInt(1),
    DecCanon(FALSE, <<9999, 9999, 99>>, -10) }

NoNumber == PyInt(0)

NoLocals ==
  /\ y = << >> /\ i = 0 /\ x_start = NoNumber /\ x = NoNumber
  /\ candidate = DecInt(0) /\ qa = << >>

NoDay == -1

\* latest_day_from_nasa_oceandata_opendap not called
NoDownload ==
  /\ available = {} /\ date = 0 /\ retry = FALSE /\ count = 0
  /\ requested = << >> /\ returned = NoDay /\ latest_pc = "idle"

\* range_of_days_from_nasa_oceandata_opendap not called
NoRange ==
  /\ n_days = 0 /\ failed = {} /\ day = 0
  /\ all_data = << >> /\ assembled = << >> /\ range_pc = "idle"

\* combination_test not called
NoTest ==
  /\ batch1 = << >> /\ batch2 = << >> /\ one_sided = "None"
  /\ t_obs = FZero /\ splits = << >> /\ t_distribution = << >>
  /\ counter = 0 /\ p_value = FZero /\ test_pc = "idle"

\* convert_dms_string_to_dd_float not called
NoConversion ==
  /\ lon = << >> /\ lat = << >> /\ dd = << >> /\ convert_pc = "idle"

\* find_integer_or_decimal_in_text not called
NoSearch == text = << >> /\ found = << >> /\ find_pc = "idle"

NoOthers == NoRange /\ NoTest /\ NoConversion /\ NoSearch

Init ==
  /\ \E k \in 1..Len(Instances) : self = Instances[k]
  /\ op = "none" /\ arg = << >> /\ status = "none" /\ result = << >>
  /\ pc = "ready"
  /\ NoLocals
  /\ NoDownload
  /\ NoOthers

\* a call that is a single step: its outcome is recorded
Complete(name, argument, outcome) ==
  /\ op' = name /\ arg' = argument
  /\ status' = outcome.status /\ result' = outcome.rows
  /\ pc' = "done"
  /\ UNCHANGED <<others, download, self, locals>>

call_pmf(xs) ==
  /\ pc = "ready"
  /\ Complete("pmf", xs, pmf(self, ListArg(xs)))

call_cdf(xs) ==
  /\ pc = "ready"
  /\ Complete("cdf", xs, cdf(self, ListArg(xs)))

call_mean ==
  /\ pc = "ready"
  /\ Complete("mean", << >>, mean(self))

call_variance ==
  /\ pc = "ready"
  /\ Complete("variance", << >>, variance(self))

\* plot_pmf_of_range / plot_cdf_of_range, up to the chart: the table over
\* list(range(start, end + 1))
plot_pmf_of_range(start, end) ==
  /\ pc = "ready"
  /\ Complete("plot_pmf_of_range", <<start, end>>,
              pmf(self, ListArg(range(start, end + 1))))

plot_cdf_of_range(start, end) ==
  /\ pc = "ready"
  /\ Complete("plot_cdf_of_range", <<start, end>>,
              cdf(self, ListArg(range(start, end + 1))))

\* the caller drops the result and is ready for the next call
discard ==
  /\ pc = "done"
  /\ op' = "none" /\ arg' = << >> /\ status' = "none" /\ result' = << >>
  /\ pc' = "ready"
  /\ UNCHANGED <<others, download, self, locals>>

\* inverse_cdf, lines 161-167: copy, sort, start at the lower bound
inverse_cdf_begin(a) ==
  /\ op' = "inverse_cdf" /\ arg' = a
  /\ status' = "running" /\ result' = << >>
  /\ y' = sort(a) /\ i' = 1
  /\ x_start' = self.X_range[1]
  /\ qa' = << >>
  /\ pc' = "for"
  /\ UNCHANGED <<others, download, self, x, candidate>>

inverse_cdf(a) ==
  /\ pc = "ready"
  /\ inverse_cdf_begin(a)

\* the caller passes a value F(x) it got from cdf on to inverse_cdf
inverse_cdf_of_cdf(k) ==
  /\ pc = "done" /\ op = "cdf" /\ status = "ok"
  /\ k \in 1..Len(result)
  /\ inverse_cdf_begin(<<result[k][2]>>)

\* an exception leaves inverse_cdf: nothing is returned
inverse_cdf_raise(exception) ==
  /\ status' = exception /\ result' = << >>
  /\ pc' = "done"
  /\ y' = << >> /\ i' = 0 /\ x_start' = NoNumber /\ x' = NoNumber
  /\ candidate' = DecInt(0) /\ qa' = << >>
  /\ UNCHANGED <<others, download, self, op, arg>>

in_unit_interval(alpha) == DecLt(DecInt(0), alpha) /\ DecLt(alpha, One)

\* line 169-170: a quantile outside (0, 1)
inverse_cdf_check ==
  /\ pc = "for" /\ i <= Len(y)
  /\ ~in_unit_interval(y[i])
  /\ inverse_cdf_raise("RangeError")

\* an entry that forgets the probability accumulated below x_start: the
\* search resumes with p(x_start) alone
helper_enter_forgetting(F) ==
  IF F.status # "ok" THEN inverse_cdf_raise(F.status)
  ELSE IF F.rows = << >> THEN inverse_cdf_raise("IndexError")
  ELSE /\ x' = x_start
       /\ candidate' = eval_pmf(self, x_start.int)
       /\ pc' = "while"
       /\ UNCHANGED <<others, download, self, op, arg, status, result, y, i, x_start, qa>>

\* line 171 and _inverse_cdf_helper lines 139-140
helper_enter(F) ==
  IF F.status # "ok" THEN inverse_cdf_raise(F.status)
  ELSE IF F.rows = << >> THEN inverse_cdf_raise("IndexError")
  ELSE /\ x' = x_start
       /\ candidate' = F.rows[1][2]
       /\ pc' = "while"
       /\ UNCHANGED <<others, download, self, op, arg, status, result, y, i, x_start, qa>>

inverse_cdf_helper ==
  /\ pc = "for" /\ i <= Len(y)
  /\ in_unit_interval(y[i])
  /\ helper_enter(cdf(self, NumberArg(x_start)))

\* _inverse_cdf_helper lines 141-143: one iteration of the while loop
helper_advance(next, p) ==
  IF p.status # "ok" THEN inverse_cdf_raise(p.status)
  ELSE /\ x' = next
       /\ candidate' = DecAdd(candidate, p.rows[1][2])
       /\ UNCHANGED <<others, download, self, op, arg, status, result, pc, y, i, x_start, qa>>

inverse_cdf_helper_step ==
  /\ pc = "while"
  /\ DecLt(candidate, y[i])
  /\ x.int < MaxCursor
  /\ helper_advance([x EXCEPT !.int = x.int + 1],
                    pmf(self, NumberArg([x EXCEPT !.int = x.int + 1])))

\* a return that keeps the cursor in the instance (self.X_range[0] = x) for
\* the next search, instead of in the local x_start
inverse_cdf_helper_return_in_self ==
  /\ pc = "while"
  /\ ~DecLt(candidate, y[i])
  /\ self' = [self EXCEPT !.X_range = <<x, self.X_range[2]>>]
  /\ x_start' = x
  /\ qa' = Append(qa, x.int)
  /\ i' = i + 1
  /\ pc' = "for"
  /\ UNCHANGED <<others, download, op, arg, status, result, y, x, candidate>>

\* _inverse_cdf_helper line 144 and inverse_cdf lines 172-173
inverse_cdf_helper_return ==
  /\ pc = "while"
  /\ ~DecLt(candidate, y[i])
  /\ x_start' = x
  /\ qa' = Append(qa, x.int)
  /\ i' = i + 1
  /\ pc' = "for"
  /\ UNCHANGED <<others, download, self, op, arg, status, result, y, x, candidate>>

\* lines 174-175: the DataFrame of the columns y and qa
inverse_cdf_return ==
  /\ pc = "for" /\ i > Len(y)
  /\ status' = "ok"
  /\ result' = [k \in 1..Len(y) |-> <<y[k], qa[k]>>]
  /\ pc' = "done"
  /\ y' = << >> /\ i' = 0 /\ x_start' = NoNumber /\ x' = NoNumber
  /\ candidate' = DecInt(0) /\ qa' = << >>
  /\ UNCHANGED <<others, download, self, op, arg>>

Next ==
  \/ \E xs \in SeqsUpTo(XValues(self), MaxLen) : call_pmf(xs)
  \/ \E xs \in SeqsUpTo(XValues(self), MaxLen) : call_cdf(xs)
  \/ call_mean
  \/ call_variance
  \/ \E start \in XValues(self), end \in XValues(self) :
       plot_pmf_of_range(start, end)
  \/ \E start \in XValues(self), end \in XValues(self) :
       plot_cdf_of_range(start, end)
  \/ \E a \in SeqsUpTo(Quantiles, MaxLen) : inverse_cdf(a)
  \/ \E k \in 1..MaxLen : inverse_cdf_of_cdf(k)
  \/ inverse_cdf_check
  \/ inverse_cdf_helper
  \/ inverse_cdf_helper_step
  \/ inverse_cdf_helper_return
  \/ inverse_cdf_return
  \/ discard

Spec == Init /\ [][Next]_vars

\* every instance the constructors accept: no constructor checks its
\* arguments, so these include parameters outside the documented domain
\* (p = 1.5) and the base class itself
Accepted ==
  Instances \o << Bernoulli(DecFrac(15, 1)), Geometric(DecFrac(15, 1)),
                  DiscreteProbabilityDistribution([p |-> DecFrac(5, 1)]) >>

InitAccepted ==
  /\ \E k \in 1..Len(Accepted) : self = Accepted[k]
  /\ op = "none" /\ arg = << >> /\ status = "none" /\ result = << >>
  /\ pc = "ready"
  /\ NoLocals
  /\ NoDownload
  /\ NoOthers

SpecAccepted == InitAccepted /\ [][Next]_vars

(***************************************************************************)
(* NasaOceandataChla.latest_day_from_nasa_oceandata_opendap: the retry     *)
(* loop.  A day is its distance in days before datetime.now(); the days    *)
(* in available are those for which the body of the try block (open the    *)
(* url, add the time dimension, build the object) raises nothing.          *)
(***************************************************************************)
\* the limit of "while retry and count<10"
MaxAttempts == 10

\* the oldest day whose data may exist
MaxDay == 10

queries == <<self, op, arg, status, result, pc, locals>>

\* lines 218-225: date = datetime.now(), retry = True, count = 0
latest_day_begin ==
  /\ latest_pc = "idle"
  /\ date' = 0 /\ retry' = TRUE /\ count' = 0
  /\ latest_pc' = "while"
  /\ UNCHANGED <<others, queries, available, requested, returned>>

\* an except branch that counts the failure and keeps the date
attempt_failed_same_day ==
  /\ latest_pc = "while" /\ retry /\ count < MaxAttempts
  /\ date \notin available
  /\ requested' = Append(requested, date)
  /\ count' = count + 1
  /\ UNCHANGED <<others, queries, available, date, retry, returned, latest_pc>>

\* lines 226-229 and 235-238: the url of date is opened and the try block
\* raises; one more failure, one day further back
attempt_failed ==
  /\ latest_pc = "while" /\ retry /\ count < MaxAttempts
  /\ date \notin available
  /\ requested' = Append(requested, date)
  /\ count' = count + 1
  /\ date' = date + 1
  /\ UNCHANGED <<others, queries, available, retry, returned, latest_pc>>

\* lines 226-234: the try block runs through and the data of date is returned
attempt_succeeded ==
  /\ latest_pc = "while" /\ retry /\ count < MaxAttempts
  /\ date \in available
  /\ requested' = Append(requested, date)
  /\ retry' = FALSE
  /\ returned' = date
  /\ latest_pc' = "done"
  /\ UNCHANGED <<others, queries, available, date, count>>

\* line 226 false: the loop ends and the function returns None
attempts_exhausted ==
  /\ latest_pc = "while" /\ ~(retry /\ count < MaxAttempts)
  /\ returned' = NoDay
  /\ latest_pc' = "done"
  /\ UNCHANGED <<others, queries, available, date, retry, count, requested>>

InitNasa ==
  /\ self = Instances[1]
  /\ op = "none" /\ arg = << >> /\ status = "none" /\ result = << >>
  /\ pc = "ready"
  /\ NoLocals
  /\ available \in SUBSET (0..MaxDay)
  /\ date = 0 /\ retry = FALSE /\ count = 0
  /\ requested = << >> /\ returned = NoDay /\ latest_pc = "idle"
  /\ NoOthers

NextNasa ==
  \/ latest_day_begin
  \/ attempt_failed
  \/ attempt_succeeded
  \/ attempts_exhausted

\* the function is one sequential thread: it keeps running until it returns
SpecNasa == InitNasa /\ [][NextNasa]_vars /\ WF_vars(NextNasa)

(***************************************************************************)
(* NasaOceandataChla.range_of_days_from_nasa_oceandata_opendap: the loop   *)
(* over daterange.  The days are numbered 1..n_days, oldest first;         *)
(* single_day_from_nasa_oceandata_opendap returns cls(None) for the days   *)
(* in failed (its bare except) and the data of the day for the others.     *)
(***************************************************************************)
\* the longest range requested
MaxRange == 4

\* lines 272-273: daterange and the empty all_data
range_of_days_begin ==
  /\ range_pc = "idle"
  /\ day' = 1 /\ all_data' = << >>
  /\ range_pc' = "for"
  /\ UNCHANGED <<queries, download, beside_range, n_days, failed, assembled>>

\* lines 274-279 with lines 185-186: the download raises, chl.data is None
\* and nothing is appended
single_day_failed ==
  /\ range_pc = "for" /\ day <= n_days
  /\ day \in failed
  /\ day' = day + 1
  /\ UNCHANGED <<queries, download, beside_range, n_days, failed, all_data, assembled,
                 range_pc>>

\* lines 274-280 with lines 180-184: the data of the day is appended
single_day_loaded ==
  /\ range_pc = "for" /\ day <= n_days
  /\ day \notin failed
  /\ all_data' = Append(all_data, day)
  /\ day' = day + 1
  /\ UNCHANGED <<queries, download, beside_range, n_days, failed, assembled, range_pc>>

\* lines 281-282: xr.concat raises ValueError on an empty list; otherwise
\* the data is concatenated along time in the order of all_data
range_of_days_concat ==
  /\ range_pc = "for" /\ day > n_days
  /\ IF all_data = << >>
       THEN assembled' = << >> /\ range_pc' = "ValueError"
       ELSE assembled' = all_data /\ range_pc' = "done"
  /\ UNCHANGED <<queries, download, beside_range, n_days, failed, day, all_data>>

InitRange ==
  /\ self = Instances[1]
  /\ op = "none" /\ arg = << >> /\ status = "none" /\ result = << >>
  /\ pc = "ready"
  /\ NoLocals
  /\ NoDownload
  /\ n_days \in 1..MaxRange
  /\ failed \in SUBSET (1..n_days)
  /\ day = 0 /\ all_data = << >> /\ assembled = << >> /\ range_pc = "idle"
  /\ NoTest /\ NoConversion /\ NoSearch

NextRange ==
  \/ range_of_days_begin
  \/ single_day_failed
  \/ single_day_loaded
  \/ range_of_days_concat

SpecRange == InitRange /\ [][NextRange]_vars

(***************************************************************************)
(* randomisation_tests.combination_test with the default tstat, the        *)
(* difference of the means of the two batches.  The whole call is one      *)
(* step.  Observations are ints, so statistics.mean is the exact mean      *)
(* rounded once to a float (an int when it is whole), and the difference   *)
(* is a float subtraction.                                                 *)
(***************************************************************************)
\* the longest batch drawn
MaxBatch == 3

\* [h] + c for each c of cs
prefix_each(h, cs) == Limbs([k \in 1..Len(cs) |-> <<h>> \o cs[k]])

\* itertools.combinations(pool, r): the r-length subsequences of pool, in
\* lexicographic order of their positions
RECURSIVE combinations(_, _)
combinations(pool, r) ==
  IF r = 0 THEN << << >> >>
  ELSE IF Len(pool) < r THEN << >>
  ELSE prefix_each(Head(pool), combinations(Tail(pool), r - 1))
         \o combinations(Tail(pool), r)

\* line 146: list(set(batch_all_inds) - set(batch1_inds)); a set of small
\* ints is listed in ascending order
batch2_inds(batch_all_inds, batch1_inds) ==
  SelectSeq(batch_all_inds, LAMBDA index : ~InList(index, batch1_inds))

\* lines 148-154: the observations at the indices (which count from 0)
batch_temp(batch_all, inds) ==
  Limbs([k \in 1..Len(inds) |-> batch_all[inds[k] + 1]])

RECURSIVE sum(_)
sum(data) == IF data = << >> THEN 0 ELSE Head(data) + sum(Tail(data))

\* statistics.mean of a non-empty list of ints
statistics_mean(data) ==
  IF sum(data) < 0 THEN FRound(TRUE, BNat(0 - sum(data)), BNat(Len(data)))
  ELSE FRound(FALSE, BNat(sum(data)), BNat(Len(data)))

\* the default tstat: statistics.mean(batch1)-statistics.mean(batch2)
tstat(b1, b2) == FSub(statistics_mean(b1), statistics_mean(b2))

\* a comparison that leaves out the splits whose statistic equals t_obs
counted_strictly(t, observed, side) ==
  CASE side = "None" -> FCmp(FAbs(t), FAbs(observed)) > 0
    [] side = "-" -> FCmp(t, observed) < 0
    [] side = "+" -> FCmp(t, observed) > 0
    [] OTHER -> FALSE

\* lines 160-179: whether the loop counts a split whose statistic is t
counted(t, observed, side) ==
  CASE side = "None" -> FCmp(FAbs(t), FAbs(observed)) >= 0
    [] side = "-" -> FCmp(t, observed) <= 0
    [] side = "+" -> FCmp(t, observed) >= 0
    [] OTHER -> FALSE

\* lines 136-156: the loop over permut
split_at(all_inds, permut) ==
  Limbs([k \in 1..Len(permut) |->
           <<permut[k], batch2_inds(all_inds, permut[k])>>])

statistic_of(batch_all, split) ==
  tstat(batch_temp(batch_all, split[1]), batch_temp(batch_all, split[2]))

\* lines 128-181
combination_test ==
  /\ test_pc = "idle"
  /\ IF batch1 = << >> \/ batch2 = << >>
       THEN /\ test_pc' = "StatisticsError"
            /\ UNCHANGED <<t_obs, splits, t_distribution, counter, p_value>>
       ELSE /\ t_obs' = tstat(batch1, batch2)
            /\ splits' = split_at(range(0, Len(batch1 \o batch2)),
                                  combinations(range(0, Len(batch1 \o batch2)),
                                               Len(batch1)))
            /\ t_distribution' =
                 Limbs([k \in 1..Len(splits') |->
                          statistic_of(batch1 \o batch2, splits'[k])])
            /\ counter' =
                 Cardinality({k \in 1..Len(t_distribution') :
                                counted(t_distribution'[k], t_obs',
                                        one_sided)})
            /\ p_value' = FRound(FALSE, BNat(counter'),
                                 BNat(Len(t_distribution')))
            /\ test_pc' = "done"
  /\ UNCHANGED <<queries, download, beside_test, batch1, batch2, one_sided>>

\* the observations drawn
Observations == {0, 1}

\* the call of the docstring, lines 123-124
Example == << <<10, 9, 11>>, <<12, 11, 13>> >>

\* the batches of at most n observations, the empty one included
Batches(n) == { << >> } \cup SeqsUpTo(Observations, n)

\* the pairs drawn: batch2 of at most MaxBatch observations, batch1 of one
\* fewer; and the call of the docstring
BatchPairs == (Batches(MaxBatch - 1) \X Batches(MaxBatch)) \cup {Example}

InitTest ==
  /\ self = Instances[1]
  /\ op = "none" /\ arg = << >> /\ status = "none" /\ result = << >>
  /\ pc = "ready"
  /\ NoLocals
  /\ NoDownload
  /\ NoRange /\ NoConversion /\ NoSearch
  /\ \E pair \in BatchPairs :
       batch1 = pair[1] /\ batch2 = pair[2]
  /\ one_sided \in {"None", "+", "-"}
  /\ t_obs = FZero /\ splits = << >> /\ t_distribution = << >>
  /\ counter = 0 /\ p_value = FZero /\ test_pc = "idle"

NextTest == combination_test

SpecTest == InitTest /\ [][NextTest]_vars

(***************************************************************************)
(* misc/re_find_integer_or_decimal.find_integer_or_decimal_in_text:        *)
(* re.findall of the pattern -?\d+\.?\d*|-?\.\d+ on the text.  A string    *)
(* is the sequence of its characters.  The matcher tries the alternatives  *)
(* in order at each position, every quantifier greedy, and gives the       *)
(* position after the match, or 0 for no match.                            *)
(***************************************************************************)
\* the longest text drawn
MaxText == 5

\* \d on the texts drawn
IsDigit(ch) == ch \in {"0", "1", "2", "3", "4", "5", "6", "7", "8", "9"}

CharAt(s, k) == IF k >= 1 /\ k <= Len(s) THEN s[k] ELSE ""

\* a lazy \d*: no digit is taken
digits_lazy(s, k) == k

\* \d* and the tail of \d+, greedy: the position after the digits at k
RECURSIVE digits(_, _)
digits(s, k) == IF IsDigit(CharAt(s, k)) THEN digits(s, k + 1) ELSE k

\* \.? greedy: the dot is taken when it is there
optional_dot(s, k) == IF CharAt(s, k) = "." THEN k + 1 ELSE k

\* \d+\.?\d* at k
digits_dot_digits(s, k) ==
  IF IsDigit(CharAt(s, k))
    THEN digits(s, optional_dot(s, digits(s, k + 1)))
  ELSE 0

\* \.\d+ at k
dot_digits(s, k) ==
  IF CharAt(s, k) = "." /\ IsDigit(CharAt(s, k + 1)) THEN digits(s, k + 2)
  ELSE 0

\* -? in front of an alternative: the minus is taken first, and given back
\* when the rest does not match after it
first_alternative(s, k) ==
  IF CharAt(s, k) = "-" /\ digits_dot_digits(s, k + 1) # 0
    THEN digits_dot_digits(s, k + 1)
  ELSE digits_dot_digits(s, k)

second_alternative(s, k) ==
  IF CharAt(s, k) = "-" /\ dot_digits(s, k + 1) # 0
    THEN dot_digits(s, k + 1)
  ELSE dot_digits(s, k)

\* the pattern at k: the first alternative that matches
match(s, k) ==
  IF first_alternative(s, k) # 0 THEN first_alternative(s, k)
  ELSE second_alternative(s, k)

\* re.findall: the matches from k on; after a match the scan goes on
\* where it ends, after a failure one character further
RECURSIVE findall(_, _)
findall(s, k) ==
  IF k > Len(s) THEN << >>
  ELSE IF match(s, k) = 0 THEN findall(s, k + 1)
  ELSE <<SubSeq(s, k, match(s, k) - 1)>> \o findall(s, match(s, k))

\* line 74
find_integer_or_decimal_in_text ==
  /\ find_pc = "idle"
  /\ found' = findall(text, 1)
  /\ find_pc' = "done"
  /\ UNCHANGED <<queries, download, beside_find, text>>

\* the characters of the texts drawn
Alphabet == {"a", "-", ".", "1"}

\* texts of the docstring, lines 61-62 and 46-47
Texts == { <<"a", "b", "-", "1", ".", "2", "3", "4", ".", "5", "c", "d">>,
           <<"a", "b", "1", "2", "3", ".", ".", "c", "d">> }

InitFind ==
  /\ self = Instances[1]
  /\ op = "none" /\ arg = << >> /\ status = "none" /\ result = << >>
  /\ pc = "ready"
  /\ NoLocals
  /\ NoDownload
  /\ NoRange /\ NoTest /\ NoConversion
  /\ text \in { << >> } \cup SeqsUpTo(Alphabet, MaxText) \cup Texts
  /\ found = << >> /\ find_pc = "idle"

NextFind == find_integer_or_decimal_in_text

SpecFind == InitFind /\ [][NextFind]_vars

(***************************************************************************)
(* geospatial/convert_coordinates.convert_dms_string_to_dd_float.  A       *)
(* string is the sequence of its characters; the numbers found are parsed  *)
(* by float() and combined in float arithmetic.  The whole call is one     *)
(* step.                                                                   *)
(***************************************************************************)
\* the longest coordinate string drawn
MaxChars == 4

\* [a-zA-Z]
IsLetter(ch) ==
  ch \in { "a", "b", "c", "d", "e", "f", "g", "h", "i", "j", "k", "l",
          "m", "n", "o", "p", "q", "r", "s", "t", "u", "v", "w", "x",
          "y", "z", "A", "B", "C", "D", "E", "F", "G", "H", "I", "J",
          "K", "L", "M", "N", "O", "P", "Q", "R", "S", "T", "U", "V",
          "W", "X", "Y", "Z" }

\* str.strip() on the strings drawn, whose only whitespace is the blank
RECURSIVE lstrip(_)
lstrip(s) == IF s # << >> /\ Head(s) = " " THEN lstrip(Tail(s)) ELSE s

RECURSIVE rstrip(_)
rstrip(s) ==
  IF s # << >> /\ s[Len(s)] = " " THEN rstrip(SubSeq(s, 1, Len(s) - 1))
  ELSE s

strip(s) == rstrip(lstrip(s))

\* the pattern \d+\.?\d*|\.\d+ at k: the position after the match, 0 for none
match_unsigned(s, k) ==
  IF digits_dot_digits(s, k) # 0 THEN digits_dot_digits(s, k)
  ELSE dot_digits(s, k)

\* lines 84-85: re.findall of that pattern
RECURSIVE findall_unsigned(_, _)
findall_unsigned(s, k) ==
  IF k > Len(s) THEN << >>
  ELSE IF match_unsigned(s, k) = 0 THEN findall_unsigned(s, k + 1)
  ELSE <<SubSeq(s, k, match_unsigned(s, k) - 1)>>
         \o findall_unsigned(s, match_unsigned(s, k))

\* re.search of a word
contains(s, word) ==
  \E k \in 1..(Len(s) - Len(word) + 1) :
    SubSeq(s, k, k + Len(word) - 1) = word

\* re.search of [^a-zA-Z]X$ for the letters X of initials
ends_with_initial(s, initials) ==
  /\ Len(s) >= 2
  /\ s[Len(s)] \in initials
  /\ ~IsLetter(s[Len(s) - 1])

\* the patterns of lines 89-101: ^c, or one of the two words, or an initial
\* at the end after a character that is no letter
search(s, leading, Word, word, initials) ==
  \/ CharAt(s, 1) = leading
  \/ contains(s, Word)
  \/ contains(s, word)
  \/ ends_with_initial(s, initials)

\* lines 89-101: the positive pattern is searched first
sign(s, positive, negative) ==
  IF search(strip(s), "+", positive[1], positive[2], positive[3]) THEN "+"
  ELSE IF search(strip(s), "-", negative[1], negative[2], negative[3])
    THEN "-"
  ELSE "+"

North == << <<"N", "o", "r", "t", "h">>, <<"n", "o", "r", "t", "h">>, {"N", "n"} >>

South == << <<"S", "o", "u", "t", "h">>, <<"s", "o", "u", "t", "h">>, {"S", "s"} >>

East == << <<"E", "a", "s", "t">>, <<"e", "a", "s", "t">>, {"E", "e"} >>

West == << <<"W", "e", "s", "t">>, <<"w", "e", "s", "t">>, {"W", "w"} >>

DigitValue(ch) ==
  CHOOSE v \in 0..9 :
    <<"0", "1", "2", "3", "4", "5", "6", "7", "8", "9">>[v + 1] = ch

\* the natural written by the digits of s, the dot passed over
RECURSIVE BOfDigits(_, _)
BOfDigits(s, acc) ==
  IF s = << >> THEN acc
  ELSE IF Head(s) = "." THEN BOfDigits(Tail(s), acc)
  ELSE BOfDigits(Tail(s),
                 BAdd(BMulSmall(acc, 10), BNat(DigitValue(Head(s)))))

\* the number of digits after the dot
Decimals(s) ==
  IF \E k \in 1..Len(s) : s[k] = "."
    THEN Len(s) - (CHOOSE k \in 1..Len(s) : s[k] = ".")
  ELSE 0

\* float(s) for a match of the pattern: the nearest float
float(s) == FRound(FALSE, BNorm(BOfDigits(s, << >>)), BPow10(Decimals(s)))

\* lines 105-123: the k-th number found, 0 when there are fewer
part(dms, k) == IF Len(dms) >= k THEN float(dms[k]) ELSE FZero

\* lines 125-133
decimal_degrees(dms, sgn) ==
  IF sgn = "-"
    THEN FNeg(FAdd(FAdd(part(dms, 1), FDivInt(part(dms, 2), 60)),
                   FDivInt(part(dms, 3), 3600)))
  ELSE FAdd(FAdd(part(dms, 1), FDivInt(part(dms, 2), 60)),
            FDivInt(part(dms, 3), 3600))

\* lines 84-135; dms_lat[0] or dms_lon[0] raises IndexError when no number
\* is found
convert_dms_string_to_dd_float ==
  /\ convert_pc = "idle"
  /\ IF findall_unsigned(lat, 1) = << >> \/ findall_unsigned(lon, 1) = << >>
       THEN dd' = << >> /\ convert_pc' = "IndexError"
       ELSE /\ dd' = << decimal_degrees(findall_unsigned(lon, 1),
                                       sign(lon, East, West)),
                        decimal_degrees(findall_unsigned(lat, 1),
                                        sign(lat, North, South)) >>
            /\ convert_pc' = "done"
  /\ UNCHANGED <<queries, download, beside_convert, lon, lat>>

\* the characters of the longitudes and of the latitudes drawn
LonAlphabet == {"-", " ", "1", "W"}

LatAlphabet == {"-", " ", "1", "S"}

\* calls of the docstring, lines 39, 42, 60 and 75
Calls ==
  { << <<"1", "2", "2", " ", "3", "6", " ", "5", "2", ".", "5", " ", "W">>,
       <<"3", "2", " ", "1", "8", " ", "2", "3", ".", "1", " ", "N">> >>,
    << <<"-", "1", "2", "2", " ", "3", "6", " ", "5", "2", ".", "5">>,
       <<"3", "2", " ", "1", "8", " ", "2", "3", ".", "1">> >>,
    << <<"1", "2", "2", ".", "6", "1", "4", "5", "8", "W">>, <<"3", "2", ".", "3", "0", "6", "4", "2", "N">> >>,
    << <<"1", "2", "2", "d", "e", "g", "r", "e", "e", "s", " ", "w", "e", "s", "t", " ", "0", ".", "1", "8", "m", "i", "n", "s", " ">>,
       <<"3", "2", " ", "d", "e", "g", "1", "8", ".", "m", "i", "n", " ", ".", "1", "8", " ", "s", "e", "c", "o", "n", "d", "s", " ", "n", "o", "r", "t", "h">> >> }

InitConvert ==
  /\ self = Instances[1]
  /\ op = "none" /\ arg = << >> /\ status = "none" /\ result = << >>
  /\ pc = "ready"
  /\ NoLocals
  /\ NoDownload
  /\ NoRange /\ NoTest /\ NoSearch
  /\ \/ lon \in SeqsUpTo(LonAlphabet, MaxChars) /\ lat = <<"1", " ", "N">>
     \/ lon = <<"1", " ", "E">> /\ lat \in SeqsUpTo(LatAlphabet, MaxChars)
     \/ \E call \in Calls : lon = call[1] /\ lat = call[2]
  /\ dd = << >> /\ convert_pc = "idle"

NextConvert == convert_dms_string_to_dd_float

SpecConvert == InitConvert /\ [][NextConvert]_vars


(***************************************************************************)
(* The properties checked.  The support, the quantile and the sums below   *)
(* are written from the definitions of the distributions, not from the     *)
(* code: the support is the range of X of each variant, a sum of           *)
(* probabilities is taken term by term in the module's decimal arithmetic. *)
(***************************************************************************)
InSupport(d, v) ==
  CASE d.name = "Bernoulli" -> v \in {0, 1}
    [] d.name = "B" -> 0 <= v /\ v <= d.parameters.n
    [] d.name = "G" -> v >= 1
    [] d.name = "Poisson" -> v >= 0
    [] d.name = "Uniform" ->
         DecLe(d.parameters.m, DecInt(v)) /\ DecLe(DecInt(v), d.parameters.n)
    [] OTHER -> TRUE

SupportLo(d) ==
  CASE d.name = "G" -> 1
    [] d.name = "Uniform" -> d.X_range[1].int
    [] OTHER -> 0

FiniteSupport(d) == d.name \in {"Bernoulli", "B", "Uniform"}

SupportHi(d) ==
  CASE d.name = "Bernoulli" -> 1
    [] d.name = "B" -> d.parameters.n
    [] d.name = "Uniform" -> d.X_range[2].int

\* F(v): p(lo) + p(lo + 1) + ... + p(v), summed in that order
RECURSIVE SumPmfFrom(_, _, _)
SumPmfFrom(d, v, at) ==
  IF at[1] >= v THEN at[2]
  ELSE SumPmfFrom(d, v, <<at[1] + 1,
                          DecAdd(at[2], eval_pmf(d, at[1] + 1))>>)

SumPmf(d, v) == SumPmfFrom(d, v, <<SupportLo(d), eval_pmf(d, SupportLo(d))>>)

Returns(name) == pc = "done" /\ op = name

Tolerance == DecFrac(1, 9)

Within(a, b, tol) == DecLe(DecAbs(DecSub(a, b)), tol)

\* C1: pmf on a sequence holding a value outside the support fails with the
\* range error and returns no row, wherever that value stands in the sequence.
C1_PmfOutOfRangeFails ==
  (Returns("pmf") /\ \E k \in 1..Len(arg) : ~InSupport(self, arg[k]))
    => (status = "RangeError" /\ result = << >>)

\* an in-range value came first, the out-of-range value second: Binomial(10,
\* 0.25) asked for pmf([3, 11])
C1_Witness ==
  /\ Returns("pmf") /\ self.name = "B" /\ arg = <<3, 11>>
  /\ status = "RangeError" /\ result = << >>

\* C2 (as claimed): cdf on a sequence holding a value outside the support
\* fails with the range error and produces no result, on both strategies.
C2_CdfOutOfRangeFails ==
  (Returns("cdf") /\ \E k \in 1..Len(arg) : ~InSupport(self, arg[k]))
    => (status = "RangeError" /\ result = << >>)

\* the a-quantile: the smallest v of the support with F(v) >= a
RECURSIVE QuantileFrom(_, _, _, _)
QuantileFrom(d, a, v, F) ==
  IF ~DecLt(F, a) THEN v
  ELSE QuantileFrom(d, a, v + 1, DecAdd(F, eval_pmf(d, v + 1)))

Quantile(d, a) ==
  QuantileFrom(d, a, SupportLo(d), eval_pmf(d, SupportLo(d)))

AllInUnitInterval(a) ==
  \A k \in 1..Len(a) : DecLt(DecInt(0), a[k]) /\ DecLt(a[k], DecInt(1))

\* C3 (as claimed): for quantiles in (0, 1), inverse_cdf returns for each a
\* the smallest x of the support with F(x) >= a, on every variant.
C3_InverseCdfIsQuantile ==
  (Returns("inverse_cdf") /\ AllInUnitInterval(arg))
    => /\ status = "ok"
       /\ \A k \in 1..Len(result) :
            result[k][2] = Quantile(self, result[k][1])

InDomainQuery ==
  \/ op \in {"mean", "variance"}
  \/ /\ op \in {"pmf", "cdf"}
     /\ \A k \in 1..Len(arg) : InSupport(self, arg[k])
  \/ /\ op = "inverse_cdf"
     /\ AllInUnitInterval(arg)

\* C4 (as claimed): every one of pmf, cdf, inverse_cdf, mean and variance
\* returns a value on every variant when its arguments are in-domain.
C4_QueriesComplete ==
  (pc = "done" /\ InDomainQuery) => status = "ok"

\* the closed-form mean of each variant
ClosedFormMean(d) ==
  CASE d.name = "Bernoulli" -> d.parameters.p
    [] d.name = "B" -> DecMul(DecInt(d.parameters.n), d.parameters.p)
    [] d.name = "G" -> DecDiv(DecInt(1), d.parameters.p)
    [] d.name = "Poisson" -> d.parameters.l
    [] d.name = "Uniform" ->
         DecDiv(DecAdd(d.parameters.m, d.parameters.n), DecInt(2))

\* C5 (as claimed): mean() returns the closed-form mean on every variant.
C5_MeanIsClosedForm ==
  Returns("mean") => (status = "ok" /\ result = <<ClosedFormMean(self)>>)

\* C6 (as claimed): inverse_cdf on a sequence holding a quantile outside
\* (0, 1) fails with the range error, wherever that quantile stands.
C6_BadQuantileFails ==
  (Returns("inverse_cdf") /\ ~AllInUnitInterval(arg))
    => (status = "RangeError" /\ result = << >>)

\* the value cdf returns at one x of the support
CdfAt(d, v) == cdf(d, ListArg(<<v>>)).rows[1][2]

\* the smallest v' of lo..v with cdf(v') >= cdf(v)
SmallestReaching(d, v) ==
  CHOOSE w \in SupportLo(d)..v :
    /\ DecLe(CdfAt(d, v), CdfAt(d, w))
    /\ \A u \in SupportLo(d)..(w - 1) : DecLt(CdfAt(d, u), CdfAt(d, v))

\* C7 (as claimed): for every x of the support, inverse_cdf applied to the
\* value cdf(x) returns the smallest x' with F(x') >= F(x).
C7_InverseOfCdf ==
  \A v \in XValues(self) :
    ( /\ Returns("inverse_cdf") /\ Len(arg) = 1
      /\ InSupport(self, v)
      /\ arg[1] = CdfAt(self, v) )
      => /\ status = "ok"
         /\ result[1][2] = SmallestReaching(self, v)

SummationVariant(d) == d.name \in {"Bernoulli", "B", "Poisson"}

\* C8: on Bernoulli, Binomial and Poisson a cdf call that returns gives, for
\* each requested x of the support, one row holding F(x) = p(lo) + ... + p(x),
\* whatever else was requested with it.
C8_CdfIsCumulativeSum ==
  (Returns("cdf") /\ SummationVariant(self) /\ status = "ok")
    => /\ \A k \in 1..Len(result) :
            result[k][2] = SumPmf(self, result[k][1])
       /\ \A k \in 1..Len(arg) :
            InSupport(self, arg[k])
              => \E j \in 1..Len(result) : result[j][1] = arg[k]

\* Binomial(10, 0.25) asked for cdf([3, 0]): two values of the support
C8_Witness ==
  /\ Returns("cdf") /\ self.name = "B" /\ arg = <<3, 0>>
  /\ status = "ok" /\ Len(result) = 2

\* C9 (as claimed): on Geometric and Uniform the closed-form cdf at each x of
\* the support is within 1e-9 of p(lo) + ... + p(x).
C9_ClosedFormMatchesSum ==
  (Returns("plot_cdf_of_range") /\ self.name \in {"G", "Uniform"}
     /\ status = "ok")
    => \A k \in 1..Len(result) :
         Within(result[k][2], SumPmf(self, result[k][1]), Tolerance)

\* the sum of the p(x) column, row after row
RECURSIVE SumRowsFrom(_, _)
SumRowsFrom(rows, at) ==
  IF at[1] >= Len(rows) THEN at[2]
  ELSE SumRowsFrom(rows, <<at[1] + 1, DecAdd(at[2], rows[at[1] + 1][2])>>)

SumRows(rows) == SumRowsFrom(rows, <<1, rows[1][2]>>)

\* C10 (as claimed): on Bernoulli, Binomial and Uniform the p(x) of the whole
\* support sum to 1 within 1e-9.
C10_PmfSumsToOne ==
  ( /\ Returns("plot_pmf_of_range") /\ FiniteSupport(self) /\ status = "ok"
    /\ arg = <<SupportLo(self), SupportHi(self)>> )
    => Within(SumRows(result), DecInt(1), Tolerance)

\* C11: on every variant, of two rows a cdf call returns, the one with the
\* smaller x holds the smaller or equal F(x).
C11_CdfNonDecreasing ==
  (pc = "done" /\ op \in {"cdf", "plot_cdf_of_range"} /\ status = "ok")
    => \A j \in 1..Len(result), k \in 1..Len(result) :
         result[j][1] <= result[k][1] => DecLe(result[j][2], result[k][2])

\* Geometric(0.5) asked for the cdf over 1..4 (closed-form strategy)
C11_Witness ==
  /\ Returns("plot_cdf_of_range") /\ self.name = "G" /\ arg = <<1, 4>>
  /\ status = "ok" /\ Len(result) = 4

\* C12 (as claimed): on Bernoulli, Binomial and Uniform the cdf at the upper
\* bound of the support equals 1.
C12_CdfAtMaxIsOne ==
  (Returns("cdf") /\ FiniteSupport(self) /\ status = "ok")
    => \A k \in 1..Len(result) :
         result[k][1] = SupportHi(self) => result[k][2] = DecInt(1)

InUnit(v) == DecLe(DecInt(0), v) /\ DecLe(v, DecInt(1))

\* C13 (as claimed): on every instance the constructors accept, every
\* probability pmf or cdf returns lies in [0, 1].
C13_ProbabilitiesInUnitInterval ==
  ( /\ pc = "done" /\ status = "ok"
    /\ op \in {"pmf", "cdf", "plot_pmf_of_range", "plot_cdf_of_range"} )
    => \A k \in 1..Len(result) : InUnit(result[k][2])

\* the number of k-element subsets of an n-element set
Choose(n, k) == Cardinality({S \in SUBSET (1..n) : Cardinality(S) = k})

\* the mass formula of each variant, at a v of its support
ClosedFormPmf(d, v) ==
  CASE d.name = "Bernoulli" ->
         DecMul(DecPow(d.parameters.p, v),
                DecPow(DecSub(DecInt(1), d.parameters.p), 1 - v))
    [] d.name = "B" ->
         DecMul(DecMul(DecInt(Choose(d.parameters.n, v)),
                       DecPow(d.parameters.p, v)),
                DecPow(DecSub(DecInt(1), d.parameters.p), d.parameters.n - v))
    [] d.name = "G" ->
         DecMul(DecPow(DecSub(DecInt(1), d.parameters.p), v - 1),
                d.parameters.p)
    [] d.name = "Uniform" ->
         DecDiv(DecInt(1),
                DecAdd(DecSub(d.parameters.n, d.parameters.m), DecInt(1)))

\* C14: on Bernoulli, Binomial, Geometric and Uniform, every row pmf returns
\* holds the value of the variant's mass formula at its x; Geometric(0.5)
\* gives pmf(1) = 0.5 and pmf(3) = 0.125.
C14_PmfIsClosedForm ==
  ( /\ Returns("pmf") /\ status = "ok"
    /\ self.name \in {"Bernoulli", "B", "G", "Uniform"} )
    => \A k \in 1..Len(result) :
         /\ result[k][2] = ClosedFormPmf(self, result[k][1])
         /\ (self.name = "G" /\ self.parameters.p = DecFrac(5, 1))
              => /\ result[k][1] = 1 => result[k][2] = DecFrac(5, 1)
                 /\ result[k][1] = 3 => result[k][2] = DecFrac(125, 3)

\* Geometric(0.5) asked for pmf([1, 3])
C14_Witness ==
  /\ Returns("pmf") /\ self.name = "G" /\ arg = <<1, 3>>
  /\ status = "ok" /\ Len(result) = 2

\* the closed-form variance of each variant
ClosedFormVariance(d) ==
  CASE d.name = "Bernoulli" ->
         DecMul(d.parameters.p, DecSub(DecInt(1), d.parameters.p))
    [] d.name = "B" ->
         DecMul(DecMul(DecInt(d.parameters.n), d.parameters.p),
                DecSub(DecInt(1), d.parameters.p))
    [] d.name = "G" ->
         DecDiv(DecSub(DecInt(1), d.parameters.p),
                DecMul(d.parameters.p, d.parameters.p))
    [] d.name = "Poisson" -> d.parameters.l
    [] d.name = "Uniform" ->
         DecDiv(DecMul(DecSub(d.parameters.n, d.parameters.m),
                       DecAdd(DecSub(d.parameters.n, d.parameters.m),
                              DecInt(2))),
                DecInt(12))

C16_PmfOneRowPerValue ==
  (Returns("pmf") /\ status = "ok")
    => /\ Len(result) = Len(arg)
       /\ \A k \in 1..Len(arg) : result[k][1] = arg[k]

\* Binomial(10, 0.25) asked for pmf([3, 3])
C16_Witness ==
  /\ Returns("pmf") /\ self.name = "B" /\ arg = <<3, 3>>
  /\ status = "ok" /\ Len(result) = 2

\* the outcome of a single-step query on an instance d, as <<status, rows>>
Outcome(o) == <<o.status, o.rows>>

\* the outcome the last query has on the instance as it was constructed
FreshOutcome(d) ==
  CASE op = "pmf" -> Outcome(pmf(d, ListArg(arg)))
    [] op = "cdf" -> Outcome(cdf(d, ListArg(arg)))
    [] op = "mean" -> Outcome(mean(d))
    [] op = "variance" -> Outcome(variance(d))
    [] OTHER -> <<status, result>>

\* C17: no step of any query, returning or raising, changes the instance
\* (parameters, support range, formulas, name), and a finished query has the
\* outcome it has on the instance as constructed, whatever was called before.
C17_InstanceReadOnly ==
  /\ [][self' = self]_vars
  /\ [](pc = "done" =>
          \E k \in 1..Len(Instances) :
            /\ self.name = Instances[k].name /\ self = Instances[k]
            /\ <<status, result>> = FreshOutcome(Instances[k]))

\* a search of inverse_cdf has returned its second quantile: Binomial(10,
\* 0.25) asked for inverse_cdf([0.25, 0.5]), after which x_start has moved
C17_Witness ==
  /\ Returns("inverse_cdf") /\ self.name = "B" /\ status = "ok"
  /\ Len(result) = 2 /\ result[2][2] > 0

\* the search is stuck: the accumulated probability is below the quantile,
\* the next value is in the support and adding its p(x) leaves the sum as
\* it is, and the p(x) after it is no larger
Stuck ==
  /\ pc = "while" /\ DecLt(candidate, y[i])
  /\ check_value_is_in_range(self, x.int + 2)
  /\ DecAdd(candidate, eval_pmf(self, x.int + 1)) = candidate
  /\ DecLe(eval_pmf(self, x.int + 2), eval_pmf(self, x.int + 1))

\* C18 (as claimed): inverse_cdf terminates on every variant for every
\* quantile in (0, 1): a search below its quantile is never stuck, each step
\* of the cursor raising the accumulated probability, so that the cursor
\* stops at the quantile.
C18_InverseCdfTerminates == ~Stuck

\* C19: on an instance with no closed-form cdf and no lower bound of the
\* support (the base class as constructed), a cdf query fails with an error
\* and returns nothing; the error is not the one evaluating the pmf of this
\* instance raises (TypeError), so no pmf was evaluated.
C19_NoLowerBoundFailsFast ==
  ( /\ pc = "done" /\ op \in {"cdf", "plot_cdf_of_range"}
    /\ self.cdf_formula = "None" /\ self.X_range[1] = PyInf(-1) )
    => /\ status \in {"UnboundLocalError", "ValueError"}
       /\ result = << >>

\* the base class asked for cdf([0, 1])
C19_Witness ==
  /\ Returns("cdf") /\ self.name = "DPD" /\ arg = <<0, 1>>
  /\ status = "UnboundLocalError" /\ result = << >>

\* C20: latest_day opens at most ten urls, the k-th (from 0) that of the day
\* k days before now; it stops at the first day that loads and returns it,
\* the most recent available day of the ten; and it always terminates.
C20_LatestDaySearch ==
  /\ [](/\ Len(requested) <= 10
        /\ \A k \in 1..Len(requested) : requested[k] = k - 1
        /\ \A k \in 1..(Len(requested) - 1) : requested[k] \notin available
        /\ (latest_pc = "done" /\ returned # NoDay)
             => /\ returned = requested[Len(requested)]
                /\ returned \in available /\ returned <= 9
                /\ \A d \in 0..(returned - 1) : d \notin available
        /\ (latest_pc = "done" /\ returned = NoDay)
             => \A d \in 0..9 : d \notin available)
  /\ (latest_pc = "while") ~> (latest_pc = "done")

\* three days failed to load and the fourth, three days back, is returned
C20_Witness ==
  /\ latest_pc = "done" /\ returned = 3 /\ requested = <<0, 1, 2, 3>>
  /\ count = 3

\* C21 (as claimed): latest_day returns an instance on every outcome of the
\* downloads, the one where all ten attempts fail included.
C21_LatestDayReturnsInstance ==
  latest_pc = "done" => returned # NoDay

\* a search of its own for the quantile a: from the lower bound of the
\* support, the accumulated probability starting at zero and taking p(lo),
\* p(lo + 1), ... until it reaches a; at is <<cursor, accumulated>>, and
\* stops is FALSE when a is not reached within MaxCursor or the support
RECURSIVE IndependentSearchFrom(_, _, _)
IndependentSearchFrom(d, a, at) ==
  IF ~DecLt(at[2], a) THEN [stops |-> TRUE, x |-> at[1]]
  ELSE IF at[1] >= MaxCursor \/ ~InSupport(d, at[1] + 1)
  THEN [stops |-> FALSE, x |-> at[1]]
  ELSE IndependentSearchFrom(d, a, <<at[1] + 1,
                                     DecAdd(at[2], eval_pmf(d, at[1] + 1))>>)

IndependentSearch(d, a) ==
  IndependentSearchFrom(d, a, <<SupportLo(d),
                                DecAdd(DecInt(0), eval_pmf(d, SupportLo(d)))>>)

Occurrences(s, v) == Cardinality({k \in 1..Len(s) : s[k] = v})

\* C26: inverse_cdf returns one row per requested quantile, duplicates kept,
\* the rows ascending in a and q_a non-decreasing down the rows; during the
\* call the cursor never moves backwards and the caller's sequence keeps its
\* order.
C26_InverseCdfRowsAscending ==
  /\ []((Returns("inverse_cdf") /\ status = "ok")
         => /\ Len(result) = Len(arg)
            /\ \A k \in 1..Len(arg) :
                 Occurrences([j \in 1..Len(result) |-> result[j][1]], arg[k])
                   = Occurrences(arg, arg[k])
            /\ \A k \in 1..(Len(result) - 1) :
                 /\ DecLe(result[k][1], result[k + 1][1])
                 /\ result[k][2] <= result[k + 1][2])
  /\ [][(status = "running" /\ status' = "running")
          => /\ arg' = arg
             /\ x'.int >= x.int
             /\ x_start'.int >= x_start.int]_vars

\* two quantiles given in descending order, returned in ascending order
C26_Witness ==
  /\ Returns("inverse_cdf") /\ status = "ok"
  /\ Len(arg) = 2 /\ DecLt(arg[2], arg[1])
  /\ result[1][1] = arg[2] /\ result[2][1] = arg[1]
  /\ result[1][2] < result[2][2]

\* C27 (as claimed): cdf returns exactly one row per requested value, in the
\* order requested and duplicates repeated, on the closed-form strategy and
\* on the summation strategy alike.
C27_CdfOneRowPerValue ==
  (Returns("cdf") /\ status = "ok")
    => /\ Len(result) = Len(arg)
       /\ \A k \in 1..Len(arg) : result[k][1] = arg[k]

\* C28 (as claimed): on the finite-support variants, for quantiles in (0, 1),
\* the cursor of the search stays in the support, every q_a returned lies in
\* the support and no range error is raised.
C28_CursorStaysInSupport ==
  (op = "inverse_cdf" /\ FiniteSupport(self) /\ AllInUnitInterval(arg))
    => /\ pc = "while" => InSupport(self, x.int)
       /\ pc = "done" => status # "RangeError"
       /\ (pc = "done" /\ status = "ok")
            => \A k \in 1..Len(result) : InSupport(self, result[k][2])

\* the days of 1..n that did not fail, oldest first
RECURSIVE SucceededUpTo(_, _)
SucceededUpTo(n, F) ==
  IF n = 0 THEN << >>
  ELSE IF n \in F THEN SucceededUpTo(n - 1, F)
  ELSE Append(SucceededUpTo(n - 1, F), n)

\* C29 (as claimed): whatever days fail to download, range_of_days does not
\* raise and returns the data of exactly the days that succeeded, in
\* ascending date order; the pattern where every day fails included.
C29_RangeOfDaysSkipsFailures ==
  (range_pc \notin {"idle", "for"})
    => /\ range_pc = "done"
       /\ assembled = SucceededUpTo(n_days, failed)

\* C30: for non-empty batches and one_sided None, "+" or "-", the p returned
\* is at least 1 / C(n1 + n2, n1) and at most 1: the first split enumerated
\* is the observed one and is always counted, so p is never 0.
C30_PValueBounds ==
  test_pc = "done"
    => /\ FCmp(p_value, FRound(FALSE, <<1>>,
                               BNat(Choose(Len(batch1) + Len(batch2),
                                           Len(batch1))))) >= 0
       /\ FCmp(p_value, FInt(1)) <= 0
       /\ FCmp(p_value, FZero) > 0
       /\ splits[1][1] = range(0, Len(batch1))
       /\ t_distribution[1] = t_obs

\* the call of the docstring: only the observed split and the one that
\* swaps the two 11s are counted, of twenty
C30_Witness ==
  /\ test_pc = "done"
  /\ batch1 = <<10, 9, 11>> /\ batch2 = <<12, 11, 13>> /\ one_sided = "-"
  /\ Len(splits) > 1
  /\ counter = 2
  /\ p_value = FRound(FALSE, <<1>>, <<10>>)

\* the values of a sequence
Range(s) == {s[k] : k \in 1..Len(s)}

Abs(v) == IF v < 0 THEN 0 - v ELSE v

\* the difference of the means mean(b1) - mean(b2), times Len(b1) * Len(b2):
\* an int, the same multiple for every split of a call
DifferenceOfMeans(b1, b2) == sum(b1) * Len(b2) - sum(b2) * Len(b1)

\* the comparison selected by side, on differences of means
Satisfies(t, observed, side) ==
  CASE side = "None" -> Abs(t) >= Abs(observed)
    [] side = "-" -> t <= observed
    [] side = "+" -> t >= observed

\* the splits whose difference of means satisfies the comparison with the
\* difference of means of the batches as given
SatisfyingSplits ==
  {k \in 1..Len(splits) :
     Satisfies(DifferenceOfMeans(batch_temp(batch1 \o batch2, splits[k][1]),
                                 batch_temp(batch1 \o batch2, splits[k][2])),
               DifferenceOfMeans(batch1, batch2), one_sided)}

\* every way of choosing the indices of batch1 is enumerated exactly once,
\* and each split has batches of sizes n1 and n2 that share no observation
\* and leave none out
SplitsPartition ==
  /\ Len(splits) = Choose(Len(batch1) + Len(batch2), Len(batch1))
  /\ \A j \in 1..Len(splits) : \A k \in (j + 1)..Len(splits) :
       Range(splits[j][1]) # Range(splits[k][1])
  /\ \A k \in 1..Len(splits) :
       /\ Len(splits[k][1]) = Len(batch1)
       /\ Len(splits[k][2]) = Len(batch2)
       /\ Cardinality(Range(splits[k][1])) = Len(batch1)
       /\ Cardinality(Range(splits[k][2])) = Len(batch2)
       /\ Range(splits[k][1]) \cap Range(splits[k][2]) = {}
       /\ Range(splits[k][1]) \cup Range(splits[k][2])
            = 0..(Len(batch1) + Len(batch2) - 1)

\* C22 (as claimed): combination_test evaluates the statistic on each of the
\* C(n1 + n2, n1) splits exactly once, each split a partition of the pooled
\* observations into n1 and n2 of them, and returns the number of splits
\* whose difference of means satisfies the selected comparison with the
\* observed one, divided by the number of splits.
C22_CombinationTestCounts ==
  test_pc = "done"
    => /\ SplitsPartition
       /\ Len(t_distribution) = Len(splits)
       /\ p_value = FRound(FALSE, BNat(Cardinality(SatisfyingSplits)),
                           BNat(Len(splits)))

\* a number as the claim words it: after an optional minus sign, digits and
\* at most one dot, at least one digit among them
IsNumberBody(s) ==
  /\ \A k \in 1..Len(s) : IsDigit(s[k]) \/ s[k] = "."
  /\ Cardinality({k \in 1..Len(s) : s[k] = "."}) <= 1
  /\ \E k \in 1..Len(s) : IsDigit(s[k])

IsNumber(s) ==
  IF CharAt(s, 1) = "-" THEN IsNumberBody(Tail(s)) ELSE IsNumberBody(s)

\* the end of the longest number that starts at k, 0 when none does
LongestNumberAt(s, k) ==
  Max(0, CHOOSE j \in (k - 1)..Len(s) :
           /\ j = k - 1 \/ IsNumber(SubSeq(s, k, j))
           /\ \A r \in (j + 1)..Len(s) : ~IsNumber(SubSeq(s, k, r)))

\* the numbers of s from k on, left to right: the longest one at the first
\* position where one starts, then on from its end
RECURSIVE MaximalNumbers(_, _)
MaximalNumbers(s, k) ==
  IF k > Len(s) THEN << >>
  ELSE IF LongestNumberAt(s, k) < k THEN MaximalNumbers(s, k + 1)
  ELSE <<SubSeq(s, k, LongestNumberAt(s, k))>>
         \o MaximalNumbers(s, LongestNumberAt(s, k) + 1)

\* C24: find_integer_or_decimal_in_text returns, left to right and without
\* overlap, the maximal substrings that are numbers (an optional minus, then
\* digits with at most one dot after the first digit run, or a dot and
\* digits); a second dot starts a new match only when digits follow it.
C24_FindsMaximalNumbers ==
  find_pc = "done" => found = MaximalNumbers(text, 1)

\* 'ab-1.234.5cd' gives ['-1.234', '.5']
C24_Witness ==
  /\ find_pc = "done"
  /\ text = <<"a", "b", "-", "1", ".", "2", "3", "4", ".", "5", "c", "d">>
  /\ found = << <<"-", "1", ".", "2", "3", "4">>, <<".", "5">> >>

\* the first character that is not a blank is a minus
LeadingMinus(s) == CharAt(strip(s), 1) = "-"

\* the string carries the word of a direction, or its initial standing
\* alone, with no letter next to it
CarriesIndicator(s, direction) ==
  \/ contains(s, direction[1])
  \/ contains(s, direction[2])
  \/ \E k \in 1..Len(s) :
       /\ s[k] \in direction[3]
       /\ ~IsLetter(CharAt(s, k - 1))
       /\ ~IsLetter(CharAt(s, k + 1))

\* d + m/60 + s/3600 of the first three numbers of the string
UnsignedDegrees(s) == decimal_degrees(findall_unsigned(s, 1), "+")

\* the coordinate claimed: negative exactly when the string carries the
\* indicator of the direction or a leading minus
ClaimedDegrees(s, direction) ==
  IF LeadingMinus(s) \/ CarriesIndicator(s, direction)
    THEN FNeg(UnsignedDegrees(s))
  ELSE UnsignedDegrees(s)

\* C23 (as claimed): convert_dms_string_to_dd_float returns [lon, lat], each
\* sign * (d + m/60 + s/3600) of the first three unsigned numbers of its
\* string, the sign -1 exactly when the string carries a West/South
\* indicator or a leading minus; such a coordinate is negative.
C23_SignFromIndicator ==
  convert_pc = "done"
    => /\ dd[1] = ClaimedDegrees(lon, West)
       /\ dd[2] = ClaimedDegrees(lat, South)
       /\ (LeadingMinus(lon) \/ CarriesIndicator(lon, West))
            => FCmp(dd[1], FZero) < 0
       /\ (LeadingMinus(lat) \/ CarriesIndicator(lat, South))
            => FCmp(dd[2], FZero) < 0

=============================================================================
